---- MODULE Spec2Model ----
(***************************************************************************)
(* State-machine model of subsystems of the fks_data service:              *)
(*   - the backfill store and scheduler   (fks_data/active_assets.py)      *)
(*   - the multi-provider manager and its circuit breaker                  *)
(*                                   (adapters/multi_provider_manager.py)  *)
(*   - the WebSocket fan-out  (api/routes/websocket.py, binance_ws.py)     *)
(*   - the API adapter request path       (adapters/base.py, binance.py)   *)
(*   - the OHLCV store under concurrent upserts (store.py)                 *)
(*   - the migration runner               (scripts/run_migrations.py)      *)
(*   - the webhook routes                 (api/routes/webhooks.py)         *)
(*   - the Celery collection task         (tasks/collect_data.py)          *)
(*   - kline normalization                (adapters/binance.py)            *)
(*   - dataset splits                     (validation.py, splitting.py)    *)
(*   - the delta scanner                  (processors/delta_scanner.py)    *)
(*   - the quality collector              (metrics/quality_collector.py)   *)
(*   - the quality scorer                 (validators/quality_scorer.py)    *)
(*   - the upstream stream client and its listen task                      *)
(*                        (adapters/binance_ws.py, api/routes/websocket.py) *)
(*   - provider managers built per caller (api/routes/data.py,             *)
(*                                         tasks/collect_data.py)          *)
(*   - subscribe messages and event delivery (api/routes/websocket.py)     *)
(* Each subsystem has its own next-state relation and specification; the   *)
(* variables of the other subsystems stay unchanged under it.              *)
(***************************************************************************)
EXTENDS Integers, Sequences, FiniteSets, TLC

VARIABLES
    \* ---- backfill store and scheduler
    assets,        \* active_assets table: id -> row, or NoRow
    nextId,        \* AUTOINCREMENT of active_assets.id
    progress,      \* backfill_progress table: <<id, interval>> -> row, or NoRow
    bfPc,          \* position of _run_loop: "sleep" (between cycles), "cycle" or "exited"
    bfQueue,       \* (asset snapshot, interval) pairs left in the running cycle
    hasCsv,        \* <<id, interval>> -> the managed CSV exists with rows
    splits,        \* <<id, interval>> -> names of the dataset_splits rows
    steps,         \* <<id, interval>> -> chunks processed by the loop (history)
    faults,        \* <<id, interval>> -> some chunk was not a clean success (history)
    stop_set,      \* BackfillScheduler._stop is set
    fetches_after_stop, \* chunk fetches begun while _stop was set (history)
    \* ---- multi-provider manager
    clock,         \* time.time(), in ticks
    verify_data,   \* MultiProviderManager.verify_data
    health,        \* provider_health: name -> ProviderHealth
    calls,         \* get_data invocations on the one manager: caller -> frame
    served,        \* get_data invocations started so far
    since,         \* name -> failed attempts since the provider's last success (history)
    trials,        \* name -> callers with a fetch in flight that began half-open (history)
    \* ---- WebSocket fan-out
    handler,            \* connection -> position of its endpoint task: "new", "open", "gone"
    active_connections, \* MarketDataWebSocketManager.active_connections
    subscriptions,      \* MarketDataWebSocketManager.subscriptions: connection -> record, or NoSubs
    binance_ws,         \* MarketDataWebSocketManager.binance_ws: the upstream client, or NoClient
    tasks,              \* event id -> the broadcast task created for that upstream event
    nextEv,             \* id of the next upstream event (order of the create_task calls)
    outq,               \* connection -> messages written to that client, in send order
    waiters,            \* connection -> tasks suspended in a send to it, first come first
    muted,              \* connection -> symbols it unsubscribed from since its last subscribe (history)
    \* ---- adapter contract
    atime,         \* time.time() as the adapter's threads see it, in ticks
    last_call_ts,  \* APIAdapter._last_call_ts, or NoTs
    thr,           \* thread -> frame of its fetch call on the one adapter instance
    gate_passes,   \* times at which calls came out of _respect_rate_limit (history)
    fetches,       \* fetch calls started so far
    \* ---- persistence
    ohlcv,         \* the committed rows of table ohlcv
    tx,            \* writer -> frame of its upsert call and database transaction
    last_write,    \* the call committed last, and how often in a row (history)
    upserts,       \* upsert calls started so far
    \* ---- migration runner
    mig_files,  \* migrations/*.sql: file name -> content, or NoFile
    mig_table,  \* fks_schema_migrations: file name -> recorded checksum, or NoSum
    mig_schema,  \* file names whose SQL is committed in the database
    mig_result, \* how the last run ended
    \* ---- webhook receivers
    wh_secret,  \* route -> a webhook secret is configured in app.state
    wh_cache,  \* keys set in the cache backend by the webhook routes
    wh_processed,  \* requests whose event went through processing (history)
    wh_status, \* HTTP status of the last webhook response
    \* ---- Celery collection tasks
    ce_task, \* symbol -> the collect_ohlcv_data task instance sent for it
    \* ---- normalization and persistence of fetched bars
    nz_data,  \* the data list of the last normalized payload
    nz_stored, \* rows of ohlcv written by store_ohlcv_data for the collected symbol
    \* ---- dataset splits
    sp_series,  \* the sorted datetime column of the managed CSV
    sp_splits,  \* what compute_time_splits returned for it
    sp_parts, \* split name -> row numbers split_managed_csv wrote to that split's file
    \* ---- delta scanner
    ds_last_price,  \* DeltaScanner.last_price (NoPrice before the first tick)
    ds_changes,  \* DeltaScanner.changes, the direction of each recorded change
    ds_call, \* the last get_binary_sequence call: its max_length, the changes it read and the string returned
    \* ---- quality collector
    qc_symbols,  \* the symbols argument of the running check_quality_batch call
    qc_data,  \* the keys of its data_dict argument
    qc_outcomes,  \* what happened to each symbol handled so far: missing, raised or ok
    qc_results,  \* the results dict of the call
    qc_returned, \* whether the call has returned its results
    \* ---- quality scorer
    sc_scorers,  \* weights (outlier, freshness, completeness) of the QualityScorer objects that exist
    sc_call, \* the last QualityScorer(...) call: its weights and whether it raised ValueError
    \* ---- upstream Binance client and its listen task
    up_pc,  \* position of the endpoint handler in a subscribe message: idle, start, closing or reconnecting
    up_cur,  \* the client object whose subscribe() the handler is inside
    up_subs,  \* symbols of the connected client's subscription record
    up_ref,  \* ws_manager.binance_ws: a client object, or NoRef for None
    up_clients,  \* client object -> connected, ws and subscriptions of that BinanceWebSocketClient
    up_task,  \* client object -> the _binance_listen_loop task created with it
    up_socks,  \* socket -> whether it is open and the streams named in its URL
    up_events,  \* upstream kline events: the socket each arrived on and what became of it
    up_msgs, \* subscribe messages handled so far
    \* ---- REST requests and collection tasks
    rq_count,  \* requests and tasks handled so far
    rq_failed,  \* provider -> successive earlier callers in which its fetch was attempted and failed (history)
    rq_last, \* the last caller: its kind, the providers it attempted, rq_failed before it, and the health its manager ended with
    \* ---- fan-out by symbol and timeframe
    fo_subs,  \* connection -> its subscription record
    fo_upstream,  \* the upstream client and the streams it has subscribed
    fo_asked,  \* connection -> the (symbol, timeframe) pairs its subscribe messages have named (history)
    fo_recv  \* connection -> the (symbol, timeframe) events sent to it (history)

bfVars == <<assets, nextId, progress, bfPc, bfQueue, hasCsv, splits, steps, faults,
           stop_set, fetches_after_stop>>
mpVars == <<clock, verify_data, health, calls, served, since, trials>>

wsVars == <<handler, active_connections, subscriptions, binance_ws, tasks, nextEv, outq,
           waiters, muted>>

adVars == <<atime, last_call_ts, thr, gate_passes, fetches>>

stVars == <<ohlcv, tx, last_write, upserts>>

\* variables of the remaining subsystems
mgVars == <<mig_files, mig_table, mig_schema, mig_result>>
whVars == <<wh_secret, wh_cache, wh_processed, wh_status>>
ceVars == <<ce_task>>
nzVars == <<nz_data, nz_stored>>
spVars == <<sp_series, sp_splits, sp_parts>>
dsVars == <<ds_last_price, ds_changes, ds_call>>
qcVars == <<qc_symbols, qc_data, qc_outcomes, qc_results, qc_returned>>
scVars == <<sc_scorers, sc_call>>
upVars == <<up_pc, up_cur, up_subs, up_ref, up_clients, up_task, up_socks, up_events, up_msgs>>
rqVars == <<rq_count, rq_failed, rq_last>>
foVars == <<fo_subs, fo_upstream, fo_asked, fo_recv>>
laterVars == <<mgVars, whVars, ceVars, nzVars, spVars, dsVars, qcVars, scVars, upVars, rqVars, foVars>>
mgRest == <<whVars, ceVars, nzVars, spVars, dsVars, qcVars, scVars, upVars, rqVars, foVars>>
whRest == <<mgVars, ceVars, nzVars, spVars, dsVars, qcVars, scVars, upVars, rqVars, foVars>>
ceRest == <<mgVars, whVars, nzVars, spVars, dsVars, qcVars, scVars, upVars, rqVars, foVars>>
nzRest == <<mgVars, whVars, ceVars, spVars, dsVars, qcVars, scVars, upVars, rqVars, foVars>>
spRest == <<mgVars, whVars, ceVars, nzVars, dsVars, qcVars, scVars, upVars, rqVars, foVars>>
dsRest == <<mgVars, whVars, ceVars, nzVars, spVars, qcVars, scVars, upVars, rqVars, foVars>>
qcRest == <<mgVars, whVars, ceVars, nzVars, spVars, dsVars, scVars, upVars, rqVars, foVars>>
scRest == <<mgVars, whVars, ceVars, nzVars, spVars, dsVars, qcVars, upVars, rqVars, foVars>>
upRest == <<mgVars, whVars, ceVars, nzVars, spVars, dsVars, qcVars, scVars, rqVars, foVars>>
rqRest == <<mgVars, whVars, ceVars, nzVars, spVars, dsVars, qcVars, scVars, upVars, foVars>>
foRest == <<mgVars, whVars, ceVars, nzVars, spVars, dsVars, qcVars, scVars, upVars, rqVars>>

firstVars == <<bfVars, mpVars, wsVars, adVars, stVars>>

vars == <<bfVars, mpVars, wsVars, adVars, stVars, laterVars>>

NoRow == [none |-> TRUE]

\* ------------------------------------------------------------------------
\* Bounds of the model
\* ------------------------------------------------------------------------
MaxAssets == 1        \* assets ever added to the store
MaxYears == 1         \* largest "years" given to add_asset
Today == 20000        \* datetime.utcnow() at add_asset, in days
MaxCallers == 2       \* concurrent callers of get_data on one manager
MaxRequests == 5      \* get_data invocations in one behaviour
MaxClock == 3         \* last tick of the clock
CooldownSeconds == 2  \* the manager's cooldown_seconds, in ticks
MaxConns == 2         \* client connections accepted in one behaviour
MaxThreads == 2       \* threads calling fetch on one adapter instance
MaxFetches == 2       \* fetch calls in one behaviour
MaxTime == 4          \* last tick of the adapter's clock
MinInterval == 2      \* 1 / rate_limit_per_sec, in ticks
MaxEvents == 2        \* upstream events in one behaviour
MaxWriters == 2       \* concurrent callers of the upsert
MaxUpserts == 2       \* upsert calls in one behaviour
MaxBatch == 2         \* rows in one input batch

\* ------------------------------------------------------------------------
\* Backfill: src/src/fks_data/active_assets.py
\* ------------------------------------------------------------------------
DaysPerYear == 365
FullHistoryYears == 20

AssetIds == 1..MaxAssets
Intervals == {"1m", "1h", "1d"}
Keys == AssetIds \X Intervals
\* interval lists an asset can be created with
IntervalLists == {<<"1h">>, <<"1d">>, <<"1m">>, <<"1h", "1d">>}
\* requests the admin API is given: a full-history walk is modelled for one
\* interval at a time
AssetInputs ==
    {r \in [itvs : IntervalLists, years : 1..MaxYears, full_history : BOOLEAN] :
        r.full_history => Len(r.itvs) = 1}
FetchOutcomes == {"rows", "empty", "poor", "raise"}

SeqToSet(s) == {s[i] : i \in DOMAIN s}
Min(a, b) == IF a <= b THEN a ELSE b

\* chunk size by interval, as the loop's if/elif/else decides it
ChunkDays(itv) ==
    IF itv \in {"1d", "1w", "1M"} THEN 30
    ELSE IF itv \in {"1h", "4h"} THEN 7
    ELSE 2

\* ActiveAssetStore.add_asset: target window of a new asset
TargetStart(years, full_history) ==
    IF full_history THEN Today - DaysPerYear * FullHistoryYears
    ELSE Today - DaysPerYear * years

\* ActiveAssetStore.add_asset
AddAsset(itvs, years, full_history) ==
    /\ nextId <= MaxAssets
    /\ assets' = [assets EXCEPT ![nextId] =
                     [intervals |-> itvs, years |-> years,
                      full_history |-> full_history, enabled |-> TRUE]]
    /\ nextId' = nextId + 1
    /\ progress' = [k \in Keys |->
                      IF k[1] = nextId /\ k[2] \in SeqToSet(itvs)
                      THEN [last_cursor |-> TargetStart(years, full_history),
                            target_start |-> TargetStart(years, full_history),
                            target_end |-> Today,
                            last_rows |-> 0]
                      ELSE progress[k]]
    /\ UNCHANGED <<bfPc, bfQueue, hasCsv, splits, steps, faults>>
    /\ UNCHANGED <<stop_set, fetches_after_stop>>
    /\ UNCHANGED <<mpVars, wsVars, adVars, stVars, laterVars>>

\* ActiveAssetStore.remove_asset
RemoveAsset(id) ==
    /\ assets[id] # NoRow
    /\ assets' = [assets EXCEPT ![id] = NoRow]
    /\ progress' = [k \in Keys |-> IF k[1] = id THEN NoRow ELSE progress[k]]
    /\ UNCHANGED <<nextId, bfPc, bfQueue, hasCsv, splits, steps, faults>>
    /\ UNCHANGED <<stop_set, fetches_after_stop>>
    /\ UNCHANGED <<mpVars, wsVars, adVars, stVars, laterVars>>

\* ActiveAssetStore.set_enabled
SetEnabled(id, enabled) ==
    /\ assets[id] # NoRow
    /\ assets[id].enabled # enabled
    /\ assets' = [assets EXCEPT ![id].enabled = enabled]
    /\ UNCHANGED <<nextId, progress, bfPc, bfQueue, hasCsv, splits, steps, faults>>
    /\ UNCHANGED <<stop_set, fetches_after_stop>>
    /\ UNCHANGED <<mpVars, wsVars, adVars, stVars, laterVars>>

\* pairs of one listed asset, in the order of its intervals column
RECURSIVE PairsOf(_, _)
PairsOf(id, itvs) ==
    IF itvs = <<>> THEN <<>>
    ELSE <<[id |-> id, itv |-> Head(itvs)]>> \o PairsOf(id, Tail(itvs))

\* list_assets is ORDER BY id DESC; disabled assets are skipped by the loop
RECURSIVE CyclePairs(_)
CyclePairs(id) ==
    IF id = 0 THEN <<>>
    ELSE (IF assets[id] # NoRow /\ assets[id].enabled
          THEN PairsOf(id, assets[id].intervals) ELSE <<>>)
         \o CyclePairs(id - 1)

\* _run_loop: top of the while loop with _stop clear,
\* assets = self.store.list_assets()
CycleStart ==
    /\ bfPc = "sleep"
    /\ ~stop_set
    /\ bfPc' = "cycle"
    /\ bfQueue' = CyclePairs(MaxAssets)
    /\ UNCHANGED <<assets, nextId, progress, hasCsv, splits, steps, faults>>
    /\ UNCHANGED <<stop_set, fetches_after_stop>>
    /\ UNCHANGED <<mpVars, wsVars, adVars, stVars, laterVars>>

\* the cursor value the loop hands to advance_cursor
NewCursor(start_dt, end_dt, target_end) == end_dt

\* mutant: the cursor moves only when the chunk brought rows
AdvanceCursorIfRows(k, new_cursor, rows) ==
    IF rows > 0
    THEN [progress EXCEPT ![k].last_cursor = new_cursor, ![k].last_rows = rows]
    ELSE [progress EXCEPT ![k].last_rows = rows]

\* ActiveAssetStore.advance_cursor
AdvanceCursor(k, new_cursor, rows) ==
    [progress EXCEPT ![k].last_cursor = new_cursor, ![k].last_rows = rows]

\* _run_loop: the body of the inner for loop for one (asset, interval)
ChunkStep(outcome, dbOk) ==
    /\ bfPc = "cycle"
    /\ bfQueue # <<>>
    /\ LET k == <<Head(bfQueue).id, Head(bfQueue).itv>>
           prog == progress[k]
       IN
       IF prog = NoRow \/ prog.last_cursor >= prog.target_end
       THEN \* "if not prog: continue" / "if start_dt >= target_end: continue"
            /\ bfQueue' = Tail(bfQueue)
            /\ UNCHANGED <<progress, hasCsv, splits, steps, faults, fetches_after_stop>>
       ELSE IF outcome = "raise"
       THEN \* fetcher_cb raised: the outer except ends this cycle
            /\ bfQueue' = <<>>
            /\ faults' = [faults EXCEPT ![k] = TRUE]
            /\ fetches_after_stop' = fetches_after_stop + (IF stop_set THEN 1 ELSE 0)
            /\ UNCHANGED <<progress, hasCsv, splits, steps>>
       ELSE LET start_dt == prog.last_cursor
                end_dt == start_dt + ChunkDays(k[2])
                target_end == prog.target_end
                rows == IF outcome = "rows" THEN 1 ELSE 0
                csv == hasCsv[k] \/ rows > 0
            IN
            /\ hasCsv' = [hasCsv EXCEPT ![k] = csv]
            /\ progress' = AdvanceCursor(k, NewCursor(start_dt, end_dt, target_end), rows)
            /\ splits' = IF end_dt >= target_end /\ csv /\ dbOk
                         THEN [splits EXCEPT ![k] = {"train", "val", "test"}]
                         ELSE splits
            /\ steps' = [steps EXCEPT ![k] = @ + 1]
            /\ faults' = [faults EXCEPT ![k] = @ \/ outcome # "rows" \/ ~dbOk]
            /\ fetches_after_stop' = fetches_after_stop + (IF stop_set THEN 1 ELSE 0)
            /\ bfQueue' = Tail(bfQueue)
    /\ UNCHANGED <<assets, nextId, bfPc, stop_set>>
    /\ UNCHANGED <<mpVars, wsVars, adVars, stVars, laterVars>>

\* _run_loop: end of one pass over the assets, sleep between cycles
CycleEnd ==
    /\ bfPc = "cycle"
    /\ bfQueue = <<>>
    /\ bfPc' = "sleep"
    /\ UNCHANGED <<assets, nextId, progress, bfQueue, hasCsv, splits, steps, faults>>
    /\ UNCHANGED <<stop_set, fetches_after_stop>>
    /\ UNCHANGED <<mpVars, wsVars, adVars, stVars, laterVars>>

\* BackfillScheduler.stop: sets the event (the join waits at most 2 s)
Stop ==
    /\ ~stop_set
    /\ stop_set' = TRUE
    /\ UNCHANGED <<assets, nextId, progress, bfPc, bfQueue, hasCsv, splits, steps, faults,
                   fetches_after_stop>>
    /\ UNCHANGED <<mpVars, wsVars, adVars, stVars, laterVars>>

\* _run_loop: "while not self._stop.is_set()" finds the event set
LoopExit ==
    /\ bfPc = "sleep"
    /\ stop_set
    /\ bfPc' = "exited"
    /\ UNCHANGED <<assets, nextId, progress, bfQueue, hasCsv, splits, steps, faults,
                   stop_set, fetches_after_stop>>
    /\ UNCHANGED <<mpVars, wsVars, adVars, stVars, laterVars>>

InitBackfill ==
    /\ assets = [id \in AssetIds |-> NoRow]
    /\ nextId = 1
    /\ progress = [k \in Keys |-> NoRow]
    /\ bfPc = "sleep"
    /\ bfQueue = <<>>
    /\ hasCsv = [k \in Keys |-> FALSE]
    /\ splits = [k \in Keys |-> {}]
    /\ steps = [k \in Keys |-> 0]
    /\ faults = [k \in Keys |-> FALSE]
    /\ stop_set = FALSE
    /\ fetches_after_stop = 0

NextBackfill ==
    \/ \E r \in AssetInputs : AddAsset(r.itvs, r.years, r.full_history)
    \/ \E id \in AssetIds : RemoveAsset(id)
    \/ \E id \in AssetIds, en \in BOOLEAN : SetEnabled(id, en)
    \/ CycleStart
    \/ \E outcome \in FetchOutcomes, dbOk \in BOOLEAN : ChunkStep(outcome, dbOk)
    \/ CycleEnd
    \/ Stop
    \/ LoopExit

\* the pair whose fetch raises every time, in the runs of a scheduler that
\* is never stopped
FailingKey == <<1, "1h">>

\* the inner loop body where fetcher_cb raises for FailingKey and for no
\* other pair
ChunkStepOneFailing ==
    \E outcome \in FetchOutcomes, dbOk \in BOOLEAN :
        /\ bfQueue # <<>>
        /\ outcome = "raise" <=> <<Head(bfQueue).id, Head(bfQueue).itv>> = FailingKey
        /\ ChunkStep(outcome, dbOk)

NextBackfillOneFailing ==
    \/ \E r \in AssetInputs : AddAsset(r.itvs, r.years, r.full_history)
    \/ \E id \in AssetIds : RemoveAsset(id)
    \/ \E id \in AssetIds, en \in BOOLEAN : SetEnabled(id, en)
    \/ CycleStart
    \/ ChunkStepOneFailing
    \/ CycleEnd

\* ------------------------------------------------------------------------
\* Multi-provider manager: src/src/adapters/multi_provider_manager.py
\* ------------------------------------------------------------------------
FailureThreshold == 3     \* record_failure: "if self.failures >= 3"
ThresholdPct == 1         \* verification_threshold = 0.01, in percent

ProviderList == <<"A", "B">>          \* self.providers, in priority order
Providers == SeqToSet(ProviderList)
Callers == 1..MaxCallers
\* what adapter.fetch gives: Err is a raised exception, 0 a payload without
\* data (or with a zero price), a positive number the payload's latest close
Err == -1
Prices == {100, 102}
Outcomes == {Err, 0} \cup Prices
\* what a spot check contributed to a verification: NoCheck when none was fetched
NoCheck == -2

Abs(x) == IF x < 0 THEN -x ELSE x

NewHealth == [failures |-> 0, is_circuit_open |-> FALSE, circuit_open_time |-> 0]

\* ProviderHealth.record_failure
RecordFailure(h, now) ==
    LET f == h.failures + 1 IN
    [failures |-> f,
     is_circuit_open |-> IF f >= FailureThreshold THEN TRUE ELSE h.is_circuit_open,
     circuit_open_time |-> IF f >= FailureThreshold THEN now ELSE h.circuit_open_time]

\* mutant: the success is recorded but the failure count is not reset
RecordSuccessKeepsCount(h) ==
    [failures |-> h.failures, is_circuit_open |-> FALSE, circuit_open_time |-> 0]

\* ProviderHealth.record_success
RecordSuccess(h) ==
    [failures |-> 0, is_circuit_open |-> FALSE, circuit_open_time |-> 0]

\* mutant: the cooldown comparison is the wrong way round
ShouldRetryTooEarly(h, now) ==
    IF ~h.is_circuit_open THEN TRUE
    ELSE IF h.circuit_open_time # 0 /\ now - h.circuit_open_time <= CooldownSeconds
         THEN TRUE
         ELSE FALSE

\* ProviderHealth.should_retry
ShouldRetry(h, now) ==
    IF ~h.is_circuit_open THEN TRUE
    ELSE IF h.circuit_open_time # 0 /\ now - h.circuit_open_time >= CooldownSeconds
         THEN TRUE
         ELSE FALSE

\* mutant: the spot check does not look at the secondary's circuit
SecondaryNeverUnhealthy(h, now) == FALSE

\* _verify_data: "if secondary_health.is_circuit_open and not should_retry(...)"
SecondaryUnhealthy(h, now) == h.is_circuit_open /\ ~ShouldRetry(h, now)

\* _verify_data: "variance > self.verification_threshold"
VarianceTooHigh(primary_price, secondary_price) ==
    100 * Abs(primary_price - secondary_price) > ThresholdPct * primary_price

\* mutant: the spot check never rejects the primary's data
VerifiedAlways(primary_price, secondary) == TRUE

\* _verify_data: the verdict once the secondary's spot check has come back
Verified(primary_price, secondary) ==
    IF secondary = Err THEN TRUE
    ELSE IF secondary = 0 THEN TRUE
    ELSE ~VarianceTooHigh(primary_price, secondary)

\* get_data: "if self.verify_data and len(self.providers) > 1"
VerificationOn == verify_data /\ Len(ProviderList) > 1

\* open circuit whose cooldown has passed
HalfOpen(p) ==
    health[p].is_circuit_open /\ clock - health[p].circuit_open_time >= CooldownSeconds
\* open circuit whose cooldown has not passed
Cooling(p) ==
    health[p].is_circuit_open /\ clock - health[p].circuit_open_time < CooldownSeconds

\* what became of a provider in one get_data call: not reached, skipped, its
\* fetch raised, or its fetch returned payload p and the spot check gave s
NoFate == [kind |-> "none", p |-> 0, s |-> NoCheck]
Fate(kind, price, spot) == [kind |-> kind, p |-> price, s |-> spot]
NoResult == [kind |-> "none", provider |-> "None", cause |-> "None"]
IdleCall ==
    [pc |-> "idle", idx |-> 0, data |-> 0, sec |-> "None", last_error |-> "None",
     result |-> NoResult, half0 |-> {},
     fate |-> [p \in Providers |-> NoFate],
     nfetch |-> [p \in Providers |-> 0]]

Current(c) == ProviderList[calls[c].idx]

\* get_data is entered (by the first caller that is not inside a call)
Start(c) ==
    /\ calls[c].pc \in {"idle", "done"}
    /\ \A d \in Callers : d < c => calls[d].pc \notin {"idle", "done"}
    /\ served < MaxRequests
    /\ served' = served + 1
    /\ calls' = [calls EXCEPT ![c] =
                    [IdleCall EXCEPT !.pc = "loop", !.idx = 1,
                                     !.half0 = {p \in Providers : HalfOpen(p)}]]
    /\ UNCHANGED <<clock, verify_data, health, since, trials>>
    /\ UNCHANGED <<bfVars, wsVars, adVars, stVars, laterVars>>

\* get_data: the provider's fetch or verification failed, "continue"
Failed(c, p, fate, err) ==
    /\ health' = [health EXCEPT ![p] = RecordFailure(@, clock)]
    /\ since' = [since EXCEPT ![p] = @ + 1]
    /\ calls' = [calls EXCEPT ![c].pc = "loop", ![c].idx = @ + 1, ![c].sec = "None",
                              ![c].data = 0,
                              ![c].last_error = err, ![c].fate[p] = fate]

\* get_data: "health.record_success(); return data"
Succeeded(c, p, fate) ==
    /\ health' = [health EXCEPT ![p] = RecordSuccess(@)]
    /\ since' = [since EXCEPT ![p] = 0]
    /\ calls' = [calls EXCEPT ![c].pc = "done", ![c].sec = "None", ![c].data = 0,
                              ![c].fate[p] = fate,
                              ![c].result = [kind |-> "data", provider |-> p,
                                             cause |-> "None"]]

\* get_data: one turn of "for provider_name in self.providers" up to the call
\* of adapter.fetch, or the raise after the loop
LoopStep(c) ==
    /\ calls[c].pc = "loop"
    /\ IF calls[c].idx > Len(ProviderList)
       THEN /\ calls' = [calls EXCEPT ![c].pc = "done",
                                      ![c].result = [kind |-> "error", provider |-> "None",
                                                     cause |-> calls[c].last_error]]
            /\ UNCHANGED trials
       ELSE LET p == Current(c) IN
            IF ~ShouldRetry(health[p], clock)
            THEN /\ calls' = [calls EXCEPT ![c].idx = @ + 1, ![c].fate[p] = Fate("skip", 0, NoCheck)]
                 /\ UNCHANGED trials
            ELSE /\ calls' = [calls EXCEPT ![c].pc = "fetch", ![c].nfetch[p] = @ + 1]
                 /\ trials' = IF HalfOpen(p) THEN [trials EXCEPT ![p] = @ \cup {c}]
                              ELSE trials
    /\ UNCHANGED <<clock, verify_data, health, served, since>>
    /\ UNCHANGED <<bfVars, wsVars, adVars, stVars, laterVars>>

\* get_data: adapter.fetch of the current provider returns or raises; with
\* verification on, _verify_data runs up to its own adapter.fetch
FetchReturn(c, out) ==
    /\ calls[c].pc = "fetch"
    /\ LET p == Current(c) IN
       IF out = Err
       THEN /\ Failed(c, p, Fate("err", 0, NoCheck), p)
            /\ trials' = [trials EXCEPT ![p] = @ \ {c}]
       ELSE IF ~VerificationOn
       THEN /\ Succeeded(c, p, Fate("data", out, NoCheck))
            /\ trials' = [trials EXCEPT ![p] = @ \ {c}]
       ELSE IF out = 0
       THEN /\ Failed(c, p, Fate("data", out, NoCheck), calls[c].last_error)
            /\ trials' = [trials EXCEPT ![p] = @ \ {c}]
       ELSE \E s \in Providers \ {p} :
              IF SecondaryUnhealthy(health[s], clock)
              THEN /\ Succeeded(c, p, Fate("data", out, NoCheck))
                   /\ trials' = [trials EXCEPT ![p] = @ \ {c}]
              ELSE /\ calls' = [calls EXCEPT ![c].pc = "verify", ![c].data = out,
                                             ![c].sec = s, ![c].nfetch[s] = @ + 1]
                   /\ trials' = IF HalfOpen(s) THEN [trials EXCEPT ![s] = @ \cup {c}]
                                ELSE trials
                   /\ UNCHANGED <<health, since>>
    /\ UNCHANGED <<clock, verify_data, served>>
    /\ UNCHANGED <<bfVars, wsVars, adVars, stVars, laterVars>>

\* _verify_data: the secondary's adapter.fetch returns or raises, then
\* get_data records the primary's success or failure
VerifyReturn(c, out) ==
    /\ calls[c].pc = "verify"
    /\ LET p == Current(c)
           s == calls[c].sec
       IN
       /\ IF Verified(calls[c].data, out)
          THEN Succeeded(c, p, Fate("data", calls[c].data, out))
          ELSE Failed(c, p, Fate("data", calls[c].data, out), calls[c].last_error)
       /\ trials' = [trials EXCEPT ![p] = @ \ {c}, ![s] = @ \ {c}]
    /\ UNCHANGED <<clock, verify_data, served>>
    /\ UNCHANGED <<bfVars, wsVars, adVars, stVars, laterVars>>

\* time.time() moves on
Tick ==
    /\ clock < MaxClock
    /\ clock' = clock + 1
    /\ UNCHANGED <<verify_data, health, calls, served, since, trials>>
    /\ UNCHANGED <<bfVars, wsVars, adVars, stVars, laterVars>>

InitManager ==
    /\ clock = 1
    /\ verify_data \in BOOLEAN
    /\ health = [p \in Providers |-> NewHealth]
    /\ calls = [c \in Callers |-> IdleCall]
    /\ served = 0
    /\ since = [p \in Providers |-> 0]
    /\ trials = [p \in Providers |-> {}]

NextManager ==
    \/ \E c \in Callers : Start(c)
    \/ \E c \in Callers : LoopStep(c)
    \/ \E c \in Callers, out \in Outcomes : FetchReturn(c, out)
    \/ \E c \in Callers, out \in Outcomes : VerifyReturn(c, out)
    \/ Tick

\* the failover scenario: one caller; A raises during the first three
\* requests, B always returns a valid payload
ScenarioOutcomes(p) ==
    IF p = "B" THEN Prices
    ELSE IF served <= FailureThreshold THEN {Err}
    ELSE Outcomes

ScenarioFetchReturn ==
    /\ calls[1].pc = "fetch"
    /\ \E out \in ScenarioOutcomes(Current(1)) : FetchReturn(1, out)

ScenarioVerifyReturn ==
    /\ calls[1].pc = "verify"
    /\ \E out \in ScenarioOutcomes(calls[1].sec) : VerifyReturn(1, out)

NextFailover ==
    \/ Start(1)
    \/ LoopStep(1)
    \/ ScenarioFetchReturn
    \/ ScenarioVerifyReturn
    \/ Tick

\* ------------------------------------------------------------------------
\* WebSocket fan-out (api/routes/websocket.py, adapters/binance_ws.py).
\* Clients name binance, the default provider.  A broadcast task runs
\* without interruption from one suspension point to the next, as asyncio
\* tasks do; the only suspension point of broadcast is the send.
\* ------------------------------------------------------------------------
Conns == 1..MaxConns
EventIds == 1..MaxEvents

\* the subscribe messages clients send: symbols and timeframes
SubscribeInputs ==
    { [symbols |-> {"BTCUSDT"}, timeframes |-> {"1m"}],
      [symbols |-> {"BTCUSDT", "ETHUSDT"}, timeframes |-> {"1m"}],
      [symbols |-> {"btcusdt"}, timeframes |-> {"1m"}] }

\* the unsubscribe messages clients send: symbols, empty for "all"
UnsubscribeInputs == { {}, {"BTCUSDT"}, {"ETHUSDT"} }

\* websocket.send_json: returns at once, returns after suspending the
\* sender (the frame is written, the drain waits), or raises
SendOutcomes == {"sent", "blocked", "failed"}

\* a send to a connection on which earlier senders are still suspended
\* queues up behind them
SendOutcome(reg, c, f) ==
    IF f[c] = "sent" /\ reg.waiters[c] # <<>> THEN "blocked" ELSE f[c]

\* str.upper on the symbols in use
Upper(s) == IF s = "btcusdt" THEN "BTCUSDT" ELSE s

\* the symbols upstream events carry
EventSymbols == {Upper(s) : s \in UNION {in.symbols : in \in SubscribeInputs}}

NoSubs == [present |-> FALSE, symbols |-> {}, timeframes |-> {}]
SubsRecord(symbols, timeframes) ==
    [present |-> TRUE, symbols |-> symbols, timeframes |-> timeframes]

NoClient == [exists |-> FALSE, connected |-> FALSE, subscriptions |-> {}]

NoTask == [st |-> "none", symbol |-> "", snap |-> <<>>, idx |-> 0]
DoneTask == [st |-> "done", symbol |-> "", snap |-> <<>>, idx |-> 0]

\* list(self.active_connections), taken in ascending order
ListOf(S) == SelectSeq([i \in 1..MaxConns |-> i], LAMBDA c : c \in S)

\* start_binance_streaming; ok: the upstream connect succeeds
StartBinanceStreaming(b, ok) ==
    IF b.exists /\ b.connected THEN b
    ELSE [exists |-> TRUE, connected |-> ok, subscriptions |-> {}]

\* BinanceWebSocketClient.subscribe; ok: the reconnect succeeds
BinanceSubscribe(b, symbols, timeframes, ok) ==
    LET keys == {<<Upper(x[1]), x[2]>> : x \in symbols \X timeframes}
        new_streams == keys \ b.subscriptions
    IN  IF ~b.connected THEN b
        ELSE IF new_streams = {} THEN b
        ELSE [b EXCEPT !.subscriptions = @ \cup new_streams, !.connected = ok]

\* update_binance_subscriptions
UpdateBinanceSubscriptions(b, subs, ok) ==
    LET all_symbols == UNION {subs[c].symbols : c \in Conns}
        all_timeframes == UNION {subs[c].timeframes : c \in Conns}
    IN  IF ~b.exists THEN b
        ELSE IF all_symbols # {} /\ all_timeframes # {}
             THEN BinanceSubscribe(b, all_symbols, all_timeframes, ok)
             ELSE b

\* mutant: disconnect forgets to delete the subscription record
DisconnectKeepsRecord(reg, c) == [reg EXCEPT !.active = @ \ {c}]

\* mutant: disconnect empties the whole registry
DisconnectEveryone(reg, c) ==
    [reg EXCEPT !.active = {}, !.subs = [d \in Conns |-> NoSubs]]

\* MarketDataWebSocketManager.disconnect, on the registry reg
DisconnectConn(reg, c) ==
    [reg EXCEPT !.active = @ \ {c}, !.subs = [@ EXCEPT ![c] = NoSubs]]

\* mutant: broadcast without its symbol filter
SubscribedAlways(subs, c, symbol) == TRUE

\* broadcast's filter: the record of c, or {} when it has none, lists symbol
Subscribed(subs, c, symbol) == symbol \in subs[c].symbols

\* mutant: a failed send is swallowed without disconnecting
SendMessageNoDisconnect(reg, c, msg, outcome) ==
    IF outcome = "failed" THEN reg
    ELSE [reg EXCEPT !.outq = [@ EXCEPT ![c] = Append(@, msg)]]

\* send_message: the message is written to c, or the send raises and c is
\* disconnected
SendMessage(reg, c, msg, outcome) ==
    IF outcome = "failed" THEN DisconnectConn(reg, c)
    ELSE [reg EXCEPT !.outq = [@ EXCEPT ![c] = Append(@, msg)]]

\* the for loop of broadcast from position i of its snapshot, until a send
\* suspends it or the snapshot is exhausted; f gives each send's outcome
RECURSIVE BroadcastLoop(_, _, _, _, _)
BroadcastLoop(msg, snap, i, f, reg) ==
    IF i > Len(snap) THEN [reg |-> reg, task |-> DoneTask]
    ELSE LET c == snap[i]
         IN  IF ~Subscribed(reg.subs, c, msg.symbol)
             THEN BroadcastLoop(msg, snap, i + 1, f, reg)
             ELSE IF SendOutcome(reg, c, f) = "blocked"
                  THEN [reg  |-> [SendMessage(reg, c, msg, "blocked")
                                    EXCEPT !.waiters = [@ EXCEPT ![c] = Append(@, msg.id)]],
                        task |-> [st |-> "wait", symbol |-> msg.symbol,
                                  snap |-> snap, idx |-> i]]
                  ELSE BroadcastLoop(msg, snap, i + 1, f,
                                     SendMessage(reg, c, msg, SendOutcome(reg, c, f)))

Registry ==
    [active |-> active_connections, subs |-> subscriptions, outq |-> outq,
     waiters |-> waiters]

\* one run of broadcast task t from position i, on the registry reg, under
\* any outcomes of its sends
BroadcastRun(t, snap, i, reg) ==
    \E r \in {BroadcastLoop([id |-> t, symbol |-> tasks[t].symbol], snap, i, f, reg)
                 : f \in [Conns -> SendOutcomes]} :
        /\ active_connections' = r.reg.active
        /\ waiters' = r.reg.waiters
        /\ subscriptions' = r.reg.subs
        /\ outq' = r.reg.outq
        /\ tasks' = [tasks EXCEPT ![t] = r.task]
        /\ UNCHANGED <<handler, binance_ws, nextEv, muted>>
        /\ UNCHANGED <<bfVars, mpVars, adVars, stVars, laterVars>>

\* the endpoint accepts a connection, registers it and sends the confirmation;
\* when that send fails the handler returns through its finally block
Connect(c) ==
    /\ handler[c] = "new"
    /\ \A d \in Conns : d < c => handler[d] # "new"
    /\ \E sent \in BOOLEAN :
         IF sent
         THEN /\ handler' = [handler EXCEPT ![c] = "open"]
              /\ active_connections' = active_connections \cup {c}
              /\ subscriptions' = [subscriptions EXCEPT ![c] = SubsRecord({}, {})]
              /\ UNCHANGED binance_ws
         ELSE /\ handler' = [handler EXCEPT ![c] = "gone"]
              /\ UNCHANGED <<active_connections, subscriptions>>
              /\ binance_ws' \in {UpdateBinanceSubscriptions(binance_ws, subscriptions, ok)
                                   : ok \in BOOLEAN}
    /\ UNCHANGED <<tasks, nextEv, outq, waiters, muted>>
    /\ UNCHANGED <<bfVars, mpVars, adVars, stVars, laterVars>>

\* action "subscribe"
Subscribe(c) ==
    /\ handler[c] = "open"
    /\ \E in \in SubscribeInputs :
         LET subs == [subscriptions EXCEPT ![c] = SubsRecord(in.symbols, in.timeframes)]
         IN  /\ subscriptions' = subs
             /\ binance_ws' \in {UpdateBinanceSubscriptions(
                                     StartBinanceStreaming(binance_ws, ok1), subs, ok2)
                                 : ok1, ok2 \in BOOLEAN}
    /\ muted' = [muted EXCEPT ![c] = {}]
    /\ UNCHANGED <<handler, active_connections, tasks, nextEv, outq, waiters>>
    /\ UNCHANGED <<bfVars, mpVars, adVars, stVars, laterVars>>

\* mutant: unsubscribe leaves the symbol list as it was
RemainingSymbolsAll(current_symbols, symbols) == current_symbols

\* "[s for s in current_symbols if s not in symbols]"
RemainingSymbols(current_symbols, symbols) == current_symbols \ symbols

\* action "unsubscribe"; naming symbols when the connection has no record
\* raises KeyError, which the handler answers with an error message
Unsubscribe(c) ==
    /\ handler[c] = "open"
    /\ \E symbols \in UnsubscribeInputs :
         /\ symbols # {} => subscriptions[c].present
         /\ LET subs == IF symbols = {}
                        THEN [subscriptions EXCEPT ![c] = SubsRecord({}, {})]
                        ELSE [subscriptions EXCEPT
                                 ![c].symbols = RemainingSymbols(@, symbols)]
            IN  /\ subscriptions' = subs
                /\ binance_ws' \in {UpdateBinanceSubscriptions(binance_ws, subs, ok)
                                    : ok \in BOOLEAN}
         /\ muted' = [muted EXCEPT ![c] = IF symbols = {} THEN EventSymbols
                                                          ELSE @ \cup symbols]
    /\ UNCHANGED <<handler, active_connections, tasks, nextEv, outq, waiters>>
    /\ UNCHANGED <<bfVars, mpVars, adVars, stVars, laterVars>>

\* the client goes away: WebSocketDisconnect, then the finally block
Disconnect(c) ==
    /\ handler[c] = "open"
    /\ LET reg == DisconnectConn(Registry, c)
       IN  /\ active_connections' = reg.active
           /\ subscriptions' = reg.subs
           /\ binance_ws' \in {UpdateBinanceSubscriptions(binance_ws, reg.subs, ok)
                               : ok \in BOOLEAN}
    /\ handler' = [handler EXCEPT ![c] = "gone"]
    /\ UNCHANGED <<tasks, nextEv, outq, waiters, muted>>
    /\ UNCHANGED <<bfVars, mpVars, adVars, stVars, laterVars>>

\* _handle_binance_message: the upstream client hands over a kline of a
\* stream it is subscribed to; a broadcast task is created for it
HandleBinanceMessage ==
    /\ nextEv <= MaxEvents
    /\ binance_ws.exists /\ binance_ws.connected
    /\ \E key \in binance_ws.subscriptions :
         tasks' = [tasks EXCEPT ![nextEv] =
                      [st |-> "new", symbol |-> key[1], snap |-> <<>>, idx |-> 0]]
    /\ nextEv' = nextEv + 1
    /\ UNCHANGED <<handler, active_connections, subscriptions, binance_ws, outq, waiters, muted>>
    /\ UNCHANGED <<bfVars, mpVars, adVars, stVars, laterVars>>

\* a created broadcast task gets the event loop: tasks start in the order
\* of their creation
BroadcastStart(t) ==
    /\ tasks[t].st = "new"
    /\ \A u \in EventIds : u < t => tasks[u].st # "new"
    /\ BroadcastRun(t, ListOf(active_connections), 1, Registry)

\* a suspended send completes: senders waiting on one connection wake in the
\* order in which they began to wait
BroadcastResume(t) ==
    /\ tasks[t].st = "wait"
    /\ LET c == tasks[t].snap[tasks[t].idx]
       IN  /\ Head(waiters[c]) = t
           /\ BroadcastRun(t, tasks[t].snap, tasks[t].idx + 1,
                           [Registry EXCEPT !.waiters = [@ EXCEPT ![c] = Tail(@)]])

InitWs ==
    /\ handler = [c \in Conns |-> "new"]
    /\ active_connections = {}
    /\ subscriptions = [c \in Conns |-> NoSubs]
    /\ binance_ws = NoClient
    /\ tasks = [t \in EventIds |-> NoTask]
    /\ nextEv = 1
    /\ outq = [c \in Conns |-> <<>>]
    /\ waiters = [c \in Conns |-> <<>>]
    /\ muted = [c \in Conns |-> {}]

NextWs ==
    \/ \E c \in Conns : Connect(c)
    \/ \E c \in Conns : Subscribe(c)
    \/ \E c \in Conns : Unsubscribe(c)
    \/ \E c \in Conns : Disconnect(c)
    \/ HandleBinanceMessage
    \/ \E t \in EventIds : BroadcastStart(t)
    \/ \E t \in EventIds : BroadcastResume(t)

\* ------------------------------------------------------------------------
\* Adapter contract (adapters/base.py) with the caching fetch of the Binance
\* adapter (adapters/binance.py): one adapter instance with
\* rate_limit_per_sec set, used by several threads.  A thread can be
\* preempted between any two statements of _respect_rate_limit.
\* ------------------------------------------------------------------------
Threads == 1..MaxThreads

NoTs == -1              \* _last_call_ts is None
MaxRetries == 2         \* FKS_API_MAX_RETRIES default

\* what a stage of fetch can do: succeed, raise DataFetchError, or raise
\* some other exception (ValueError, KeyError, a requests exception, ...)
StageOutcomes == {"ok", "DataFetchError", "OtherError"}

\* what the cache lookup of BinanceAdapter.fetch can do: "key_error" is
\* _build_cache_key raising (":".join over a symbol or interval that is
\* not a string), "error" is the Redis GET raising
CacheOutcomes == {"hit", "miss", "error", "key_error"}

\* fetch's handlers: DataFetchError is re-raised, any other exception is
\* wrapped in DataFetchError
Surface(exc) == IF exc = "DataFetchError" THEN exc ELSE "DataFetchError"

IdleThread ==
    [pc |-> "idle", now |-> 0, wake |-> 0, attempt |-> 0, nhttp |-> 0,
     raised |-> "none", result |-> "none"]

\* a fetch call begins: BinanceAdapter.fetch looks in the cache first; a
\* hit returns the cached payload, a miss or a cache error goes on to the
\* base fetch; the cache key is built before the try, so what it raises
\* leaves fetch as it is
FetchStart(c) ==
    /\ thr[c].pc \in {"idle", "done"}
    /\ \A d \in Threads : d < c => thr[d].pc \notin {"idle", "done"}
    /\ fetches < MaxFetches
    /\ fetches' = fetches + 1
    /\ \E cache \in CacheOutcomes :
         thr' = [thr EXCEPT ![c] =
                    IF cache = "hit"
                    THEN [IdleThread EXCEPT !.pc = "done", !.result = "ok"]
                    ELSE IF cache = "key_error"
                    THEN [IdleThread EXCEPT !.pc = "done", !.raised = "OtherError",
                                            !.result = "OtherError"]
                    ELSE [IdleThread EXCEPT !.pc = "gate"]]
    /\ UNCHANGED <<atime, last_call_ts, gate_passes>>
    /\ UNCHANGED <<bfVars, mpVars, wsVars, stVars, laterVars>>

\* _respect_rate_limit up to its decision: reads the clock and
\* _last_call_ts, and sets _last_call_ts on the first call
GateRead(c) ==
    /\ thr[c].pc = "gate"
    /\ IF last_call_ts = NoTs
       THEN thr' = [thr EXCEPT ![c].pc = "gate_first", ![c].now = atime]
       ELSE LET elapsed == atime - last_call_ts
            IN  thr' = [thr EXCEPT ![c].pc = "gate_stamp", ![c].now = atime,
                                   ![c].wake = IF elapsed < MinInterval
                                               THEN atime + (MinInterval - elapsed)
                                               ELSE atime]
    /\ UNCHANGED <<atime, last_call_ts, gate_passes, fetches>>
    /\ UNCHANGED <<bfVars, mpVars, wsVars, stVars, laterVars>>

\* "self._last_call_ts = now; return" of the first call
GateFirst(c) ==
    /\ thr[c].pc = "gate_first"
    /\ last_call_ts' = thr[c].now
    /\ gate_passes' = Append(gate_passes, atime)
    /\ thr' = [thr EXCEPT ![c].pc = "build"]
    /\ UNCHANGED <<atime, fetches>>
    /\ UNCHANGED <<bfVars, mpVars, wsVars, stVars, laterVars>>

\* the sleep, if any, is over: "self._last_call_ts = time.time()"
GateStamp(c) ==
    /\ thr[c].pc = "gate_stamp"
    /\ atime >= thr[c].wake
    /\ last_call_ts' = atime
    /\ gate_passes' = Append(gate_passes, atime)
    /\ thr' = [thr EXCEPT ![c].pc = "build"]
    /\ UNCHANGED <<atime, fetches>>
    /\ UNCHANGED <<bfVars, mpVars, wsVars, stVars, laterVars>>

\* fetch ends with an exception of stage kind exc
Raise(c, exc) ==
    [thr EXCEPT ![c].pc = "done", ![c].raised = exc, ![c].result = Surface(exc)]

\* _build_request
BuildRequest(c) ==
    /\ thr[c].pc = "build"
    /\ \E out \in StageOutcomes :
         thr' = IF out = "ok" THEN [thr EXCEPT ![c].pc = "http"] ELSE Raise(c, out)
    /\ UNCHANGED <<atime, last_call_ts, gate_passes, fetches>>
    /\ UNCHANGED <<bfVars, mpVars, wsVars, stVars, laterVars>>

\* mutant: the retry loop never takes its final-failure exit
LastAttemptNever(attempt) == FALSE

\* "if attempt == self._max_retries"
LastAttempt(attempt) == attempt = MaxRetries

\* one turn of the while loop of _request_with_retries: an HTTP attempt,
\* and on failure either the final DataFetchError or the backoff sleep;
\* past the loop, the closing raise
HttpAttempt(c) ==
    /\ thr[c].pc = "http"
    /\ IF thr[c].attempt <= MaxRetries
       THEN \E ok \in BOOLEAN :
              thr' = IF ok
                     THEN [thr EXCEPT ![c].pc = "normalize", ![c].nhttp = @ + 1]
                     ELSE IF LastAttempt(thr[c].attempt)
                          THEN [Raise(c, "DataFetchError") EXCEPT ![c].nhttp = @ + 1]
                          ELSE [thr EXCEPT ![c].attempt = @ + 1, ![c].nhttp = @ + 1]
       ELSE thr' = Raise(c, "DataFetchError")
    /\ UNCHANGED <<atime, last_call_ts, gate_passes, fetches>>
    /\ UNCHANGED <<bfVars, mpVars, wsVars, stVars, laterVars>>

\* _normalize, then the cache store of BinanceAdapter.fetch, whose errors
\* are logged only
Normalize(c) ==
    /\ thr[c].pc = "normalize"
    /\ \E out \in StageOutcomes :
         thr' = IF out = "ok" THEN [thr EXCEPT ![c].pc = "done", ![c].result = "ok"]
                ELSE Raise(c, out)
    /\ UNCHANGED <<atime, last_call_ts, gate_passes, fetches>>
    /\ UNCHANGED <<bfVars, mpVars, wsVars, stVars, laterVars>>

\* time.time() moves on
AdapterTick ==
    /\ atime < MaxTime
    /\ atime' = atime + 1
    /\ UNCHANGED <<thr, last_call_ts, gate_passes, fetches>>
    /\ UNCHANGED <<bfVars, mpVars, wsVars, stVars, laterVars>>

InitAdapter ==
    /\ atime = 0
    /\ last_call_ts = NoTs
    /\ thr = [c \in Threads |-> IdleThread]
    /\ gate_passes = <<>>
    /\ fetches = 0

NextAdapter ==
    \/ \E c \in Threads : FetchStart(c)
    \/ \E c \in Threads : GateRead(c)
    \/ \E c \in Threads : GateFirst(c)
    \/ \E c \in Threads : GateStamp(c)
    \/ \E c \in Threads : BuildRequest(c)
    \/ \E c \in Threads : HttpAttempt(c)
    \/ \E c \in Threads : Normalize(c)
    \/ AdapterTick

\* ------------------------------------------------------------------------
\* persistence (store.py, tasks/collect_data.py): table ohlcv with primary
\* key (source, symbol, interval, ts), written by upsert_ohlcv and by
\* store_ohlcv_data.  Each call is one transaction: executemany runs one
\* INSERT ... ON CONFLICT DO UPDATE per row, then commit.  The database
\* holds a row lock from a statement to the end of its transaction, so a
\* statement on a key another open transaction has written waits.  The
\* source and the interval are the same in every call here.
\* ------------------------------------------------------------------------
Writers == 1..MaxWriters

Null == -1     \* SQL NULL (Python None)
NaN == -2      \* the float NaN

Paths == {"upsert_ohlcv", "store_ohlcv_data"}
Symbols == {"BTCUSDT", "ETHUSDT"}

\* input bars: a timestamp and one price field, as the caller holds them
Bars ==
    { [ts |-> "60", close |-> "100"],
      [ts |-> "60", close |-> "101"],
      [ts |-> "60.0", close |-> "100.0"],
      [ts |-> "120", close |-> "nan"] }

Batches == UNION {[1..n -> Bars] : n \in 0..MaxBatch}

\* pd.to_datetime / datetime.fromtimestamp: the instant, in seconds
ToDatetime(ts) == IF ts \in {"60", "60.0"} THEN 60 ELSE 120

\* upsert_ohlcv: "if ... pd.notna(r[k]): float(r[k])", else None
FrameFloat(v) ==
    CASE v \in {"100", "100.0"} -> 100
      [] v = "101" -> 101
      [] OTHER -> Null

\* store_ohlcv_data: item.get(k) goes to the DOUBLE PRECISION column as it is
ItemFloat(v) ==
    CASE v \in {"100", "100.0"} -> 100
      [] v = "101" -> 101
      [] OTHER -> NaN

\* the tuples handed to executemany
BuildRows(path, symbol, batch) ==
    [j \in DOMAIN batch |->
        [symbol |-> symbol, ts |-> ToDatetime(batch[j].ts),
         close |-> IF path = "upsert_ohlcv" THEN FrameFloat(batch[j].close)
                   ELSE ItemFloat(batch[j].close)]]

\* the conflict target: (source, symbol, interval, ts)
SameKey(r, s) == r.symbol = s.symbol /\ r.ts = s.ts

\* mutant: ON CONFLICT DO NOTHING
OnConflictDoNothing(old, new) == old

\* mutant: the update adds to the stored value
OnConflictAccumulate(old, new) == [old EXCEPT !.close = @ + new.close]

\* "DO UPDATE SET open=EXCLUDED.open, ..., volume=EXCLUDED.volume"
OnConflict(old, new) == [old EXCEPT !.close = new.close]

\* one INSERT ... ON CONFLICT DO UPDATE
InsertOnConflict(tbl, row) ==
    LET hit == {r \in tbl : SameKey(r, row)}
    IN  IF hit = {} THEN tbl \cup {row}
        ELSE (tbl \ hit) \cup {OnConflict(r, row) : r \in hit}

RECURSIVE ExecuteMany(_, _)
\* cur.executemany(sql, rows): the statements one after the other
ExecuteMany(tbl, rows) ==
    IF rows = <<>> THEN tbl
    ELSE ExecuteMany(InsertOnConflict(tbl, Head(rows)), Tail(rows))

IdleTx == [pc |-> "idle", path |-> "", symbol |-> "", batch |-> <<>>, i |-> 0, ret |-> 0]

NoWrite == [path |-> "", symbol |-> "", batch |-> <<>>, n |-> 0]

Rows(w) == BuildRows(tx[w].path, tx[w].symbol, tx[w].batch)

\* keys on which the open transaction of w holds a row lock
Held(w) ==
    IF tx[w].pc = "run"
    THEN {<<Rows(w)[j].symbol, Rows(w)[j].ts>> : j \in 1..(tx[w].i - 1)}
    ELSE {}

\* a call begins: an empty input returns 0, else the rows are built and
\* the transaction opens
UpsertBegin(w) ==
    /\ tx[w].pc \in {"idle", "done"}
    /\ upserts < MaxUpserts
    /\ upserts' = upserts + 1
    /\ \E path \in Paths, symbol \in Symbols, batch \in Batches :
         tx' = [tx EXCEPT ![w] =
                  IF batch = <<>>
                  THEN [IdleTx EXCEPT !.pc = "done", !.path = path]
                  ELSE [pc |-> "run", path |-> path, symbol |-> symbol,
                        batch |-> batch, i |-> 1, ret |-> 0]]
    /\ UNCHANGED <<ohlcv, last_write>>
    /\ UNCHANGED <<bfVars, mpVars, wsVars, adVars, laterVars>>

\* the next statement of executemany runs once no other open transaction
\* holds its key
Statement(w) ==
    /\ tx[w].pc = "run"
    /\ tx[w].i <= Len(tx[w].batch)
    /\ LET row == Rows(w)[tx[w].i]
       IN  \A v \in Writers \ {w} : <<row.symbol, row.ts>> \notin Held(v)
    /\ tx' = [tx EXCEPT ![w].i = @ + 1]
    /\ UNCHANGED <<ohlcv, last_write, upserts>>
    /\ UNCHANGED <<bfVars, mpVars, wsVars, adVars, laterVars>>

\* conn.commit(): the statements take effect; the call returns len(rows)
Commit(w) ==
    /\ tx[w].pc = "run"
    /\ tx[w].i = Len(tx[w].batch) + 1
    /\ ohlcv' = ExecuteMany(ohlcv, Rows(w))
    /\ tx' = [tx EXCEPT ![w].pc = "done", ![w].ret = Len(tx[w].batch)]
    /\ last_write' =
         [path |-> tx[w].path, symbol |-> tx[w].symbol, batch |-> tx[w].batch,
          n |-> IF /\ last_write.path = tx[w].path
                   /\ last_write.symbol = tx[w].symbol
                   /\ last_write.batch = tx[w].batch
                THEN last_write.n + 1 ELSE 1]
    /\ UNCHANGED upserts
    /\ UNCHANGED <<bfVars, mpVars, wsVars, adVars, laterVars>>

\* the transaction fails (connection lost, deadlock victim, statement
\* error): nothing of it is kept; upsert_ohlcv logs and returns 0,
\* store_ohlcv_data raises
Rollback(w) ==
    /\ tx[w].pc = "run"
    /\ tx' = [tx EXCEPT ![w].pc = "done",
                        ![w].ret = IF tx[w].path = "upsert_ohlcv" THEN 0 ELSE -1]
    /\ UNCHANGED <<ohlcv, last_write, upserts>>
    /\ UNCHANGED <<bfVars, mpVars, wsVars, adVars, laterVars>>

InitStore ==
    /\ ohlcv = {}
    /\ tx = [w \in Writers |-> IdleTx]
    /\ last_write = NoWrite
    /\ upserts = 0

NextStore ==
    \/ \E w \in Writers : UpsertBegin(w)
    \/ \E w \in Writers : Statement(w)
    \/ \E w \in Writers : Commit(w)
    \/ \E w \in Writers : Rollback(w)

\* ------------------------------------------------------------------------
\* migration runner (scripts/run_migrations.py): run() checks every
\* recorded migration against the file on disk, then executes and records
\* the files not yet recorded, in lexical order, in one transaction.
\* ------------------------------------------------------------------------
MigNames == <<"001.sql", "002.sql">>      \* sorted(MIGRATIONS_DIR.glob("*.sql"))

NoFile == "absent"
NoSum == "none"

\* file contents: "A_crlf" is text A with CRLF line ends, "bad" is SQL the
\* database rejects
Contents == {"A", "A_crlf", "B", "bad"}

\* hashlib.sha256(path.read_bytes()).hexdigest(): one digest per byte string
Sha256OfBytes(content) == content

\* read_text() translates line ends, then sha256(sql.encode())
Sha256OfText(content) == IF content = "A_crlf" THEN "A" ELSE content

\* mutant: recorded migrations are not verified
ChecksumMismatchIgnored(fname) == FALSE

\* "if path.exists(): ... if current != stored_checksum"
ChecksumMismatch(fname) ==
    /\ mig_table[fname] # NoSum
    /\ mig_files[fname] # NoFile
    /\ Sha256OfBytes(mig_files[fname]) # mig_table[fname]

\* the files the second loop reaches: on disk and not recorded
Pending == SelectSeq(MigNames, LAMBDA f : mig_files[f] # NoFile /\ mig_table[f] = NoSum)

\* the pending files run() executes before one fails (all, if none fails)
RECURSIVE Applicable(_)
Applicable(fs) ==
    IF fs = <<>> \/ mig_files[Head(fs)] = "bad" THEN <<>>
    ELSE <<Head(fs)>> \o Applicable(Tail(fs))

\* a developer writes, edits or deletes a migration file
WriteFile(f, content) ==
    /\ mig_files[f] # content
    /\ mig_files' = [mig_files EXCEPT ![f] = content]
    /\ UNCHANGED <<mig_table, mig_schema, mig_result>>
    /\ UNCHANGED <<firstVars, mgRest>>

\* run(): SystemExit on a checksum mismatch and an exception of cur.execute
\* both leave the with block before conn.commit(), so nothing is kept
Run ==
    /\ \E f \in SeqToSet(MigNames) : mig_files[f] # NoFile
    /\ IF \E f \in SeqToSet(MigNames) : ChecksumMismatch(f)
       THEN /\ mig_result' = "checksum_mismatch"
            /\ UNCHANGED <<mig_table, mig_schema>>
       ELSE IF Applicable(Pending) # Pending
       THEN /\ mig_result' = "sql_error"
            /\ UNCHANGED <<mig_table, mig_schema>>
       ELSE /\ mig_result' = "applied"
            /\ mig_table' = [f \in SeqToSet(MigNames) |->
                               IF f \in SeqToSet(Pending)
                               THEN Sha256OfText(mig_files[f]) ELSE mig_table[f]]
            /\ mig_schema' = mig_schema \cup SeqToSet(Pending)
    /\ UNCHANGED mig_files
    /\ UNCHANGED <<firstVars, mgRest>>

InitMigrations ==
    /\ mig_files = [f \in SeqToSet(MigNames) |-> NoFile]
    /\ mig_table = [f \in SeqToSet(MigNames) |-> NoSum]
    /\ mig_schema = {}
    /\ mig_result = "none"

NextMigrations ==
    \/ \E f \in SeqToSet(MigNames), content \in Contents \cup {NoFile} : WriteFile(f, content)
    \/ Run

\* ------------------------------------------------------------------------
\* webhook receivers (api/routes/webhooks.py): POST /webhooks/binance and
\* POST /webhooks/polygon.
\* ------------------------------------------------------------------------
Routes == {"binance", "polygon"}

\* the signature header: absent, the hex HMAC-SHA256 of the body under the
\* configured secret, or any other string
Signatures == {"none", "valid", "invalid"}

\* request bodies: a closed kline, a kline still open, an event carrying
\* "data", and bytes that are not JSON
Bodies == {"kline_closed", "kline_open", "data_event", "not_json"}

\* hmac.compare_digest(expected_signature, signature)
VerifySignature(signature) == signature = "valid"

\* "if secret and x_binance_signature:" - the check runs only when both
\* the secret and the header are there
SignatureChecked(secret, signature) == secret /\ signature # "none"

\* the event the route normalizes and caches, if any
CacheKeyOf(route, body) ==
    IF route = "binance"
    THEN IF body = "kline_closed" THEN {"webhook:BTCUSDT:60"} ELSE {}
    ELSE IF body = "data_event" THEN {"webhook:polygon:AAPL"} ELSE {}

\* an operator sets or clears the secret of a route
Configure(route, secret) ==
    /\ wh_secret[route] # secret
    /\ wh_secret' = [wh_secret EXCEPT ![route] = secret]
    /\ UNCHANGED <<wh_cache, wh_processed, wh_status>>
    /\ UNCHANGED <<firstVars, whRest>>

\* binance_webhook / polygon_webhook: parse, verify, process.  The 401 is
\* raised inside the try and leaves the route as 500 through
\* "except Exception"
Webhook(route, signature, body) ==
    /\ IF body = "not_json"
       THEN /\ wh_status' = 400
            /\ UNCHANGED <<wh_cache, wh_processed>>
       ELSE IF SignatureChecked(wh_secret[route], signature) /\ ~VerifySignature(signature)
       THEN /\ wh_status' = 500
            /\ UNCHANGED <<wh_cache, wh_processed>>
       ELSE /\ wh_status' = 200
            /\ wh_cache' = wh_cache \cup CacheKeyOf(route, body)
            /\ wh_processed' = wh_processed \cup
                  {[route |-> route, signature |-> signature,
                    secret |-> wh_secret[route]]}
    /\ UNCHANGED wh_secret
    /\ UNCHANGED <<firstVars, whRest>>

InitWebhooks ==
    /\ wh_secret = [r \in Routes |-> FALSE]
    /\ wh_cache = {}
    /\ wh_processed = {}
    /\ wh_status = 0

NextWebhooks ==
    \/ \E r \in Routes, secret \in BOOLEAN : Configure(r, secret)
    \/ \E r \in Routes, sig \in Signatures, body \in Bodies : Webhook(r, sig, body)

\* ------------------------------------------------------------------------
\* Celery collection task (tasks/collect_data.py, celery_app.py):
\* collect_ohlcv_data with autoretry_for=(Exception,), retry_backoff,
\* retry_backoff_max=600, retry_jitter and max_retries=3.
\* ------------------------------------------------------------------------
TaskSymbols == {"BTCUSDT", "ETHUSDT"}     \* DEFAULT_SYMBOLS["MAINS"]

TaskMaxRetries == 3       \* max_retries=3
RetryBackoffMax == 600    \* retry_backoff_max=600

Pow2(n) == IF n = 0 THEN 1 ELSE IF n = 1 THEN 2 ELSE IF n = 2 THEN 4 ELSE 8

\* the countdowns of retry number "retries": full jitter draws from
\* 0 .. min(retry_backoff_max, 2 ** retries)
Countdowns(retries) == 0..Min(RetryBackoffMax, Pow2(retries))

NotSent == [pc |-> "none", retries |-> 0, runs |-> 0, countdown |-> 0]

\* autoretry: an exception of the task body calls self.retry, which sends
\* the task again while request.retries < max_retries and otherwise lets
\* the exception fail the task
AutoRetry(t) ==
    IF t.retries < TaskMaxRetries
    THEN {[t EXCEPT !.pc = "waiting", !.retries = @ + 1, !.runs = @ + 1,
                    !.countdown = c] : c \in Countdowns(t.retries)}
    ELSE {[t EXCEPT !.pc = "failed", !.runs = @ + 1]}

\* beat sends one task for the symbol
SendTask(sym) ==
    /\ ce_task[sym].pc = "none"
    /\ ce_task' = [ce_task EXCEPT ![sym] = [NotSent EXCEPT !.pc = "queued"]]
    /\ UNCHANGED <<firstVars, ceRest>>

\* a worker executes the task body: it returns its summary, or an
\* exception (no data, a fetch or a database error) is re-raised
Execute(sym, ok) ==
    /\ ce_task[sym].pc = "queued"
    /\ ce_task' \in
         IF ok
         THEN {[ce_task EXCEPT ![sym].pc = "succeeded", ![sym].runs = @ + 1]}
         ELSE {[ce_task EXCEPT ![sym] = t] : t \in AutoRetry(ce_task[sym])}
    /\ UNCHANGED <<firstVars, ceRest>>

\* the countdown of a retry runs down; at 0 the task is due again
RetryWait(sym) ==
    /\ ce_task[sym].pc = "waiting"
    /\ ce_task' = IF ce_task[sym].countdown = 0
                  THEN [ce_task EXCEPT ![sym].pc = "queued"]
                  ELSE [ce_task EXCEPT ![sym].countdown = @ - 1]
    /\ UNCHANGED <<firstVars, ceRest>>

InitCelery == ce_task = [sym \in TaskSymbols |-> NotSent]

NextCelery ==
    \/ \E sym \in TaskSymbols : SendTask(sym)
    \/ \E sym \in TaskSymbols, ok \in BOOLEAN : Execute(sym, ok)
    \/ \E sym \in TaskSymbols : RetryWait(sym)

\* ------------------------------------------------------------------------
\* collection path (adapters/binance.py _normalize, tasks/collect_data.py
\* store_ohlcv_data): a kline payload is normalized row by row and the
\* data list is written to ohlcv.
\* ------------------------------------------------------------------------
MaxKlines == 2        \* klines in one payload

\* a kline as Binance sends it: [openTime ms, open, high, low, close, volume]
\* with the prices as strings
RawKlines ==
    { <<60000, "100", "101", "99", "100", "5">>,      \* a valid bar
      <<60000, "100", "101", "101", "100", "5">>,     \* low above open and close
      <<120000, "100", "99", "99", "100", "5">>,      \* high below open and close
      <<120000, "100", "101", "99", "100", "-1">>,    \* negative volume
      <<180000, "99", "101", "99", "101", "5">>,      \* a valid bar
      <<180000, "abc", "101", "99", "100", "5">> }    \* open is not a number

Payloads == UNION {[1..n -> RawKlines] : n \in 0..MaxKlines}

NotANumber == -999

\* float(s): the number, or ValueError
ToFloat(s) ==
    CASE s = "99" -> 99 [] s = "100" -> 100 [] s = "101" -> 101
      [] s = "5" -> 5 [] s = "-1" -> -1 [] OTHER -> NotANumber

\* the row _normalize appends for one kline; a kline whose conversion
\* raises is skipped
NormalizeKline(item) ==
    IF \E j \in 2..6 : ToFloat(item[j]) = NotANumber THEN <<>>
    ELSE << [ts |-> item[1] \div 1000, open |-> ToFloat(item[2]),
             high |-> ToFloat(item[3]), low |-> ToFloat(item[4]),
             close |-> ToFloat(item[5]), volume |-> ToFloat(item[6])] >>

RECURSIVE NormalizePayload(_)
\* BinanceAdapter._normalize: the data list
NormalizePayload(raw) ==
    IF raw = <<>> THEN <<>>
    ELSE NormalizeKline(Head(raw)) \o NormalizePayload(Tail(raw))

RECURSIVE StoreRows(_, _)
\* store_ohlcv_data: one upsert per item of the data list, keyed by ts
StoreRows(tbl, data) ==
    IF data = <<>> THEN tbl
    ELSE StoreRows({r \in tbl : r.ts # Head(data).ts} \cup {Head(data)}, Tail(data))

\* collect_ohlcv_data: fetch, normalize, store (an empty data list raises
\* before the store is reached)
Collect(raw) ==
    /\ nz_data' = NormalizePayload(raw)
    /\ nz_stored' = StoreRows(nz_stored, NormalizePayload(raw))
    /\ UNCHANGED <<firstVars, nzRest>>

InitNormalize ==
    /\ nz_data = <<>>
    /\ nz_stored = {}

NextNormalize == \E raw \in Payloads : Collect(raw)

\* ------------------------------------------------------------------------
\* dataset splits (validation.py compute_time_splits, splitting.py
\* split_managed_csv) over a sorted datetime series.
\* ------------------------------------------------------------------------
MaxRows == 6          \* rows of the series
MaxStamp == 4         \* distinct timestamps

SplitNames == <<"train", "val", "test">>

\* sorted series of at most MaxRows timestamps
SortedSeries ==
    {s \in UNION {[1..n -> 1..MaxStamp] : n \in 0..MaxRows} :
        \A i \in 1..(Len(s) - 1) : s[i] <= s[i + 1]}

\* "boundaries = [0, i_train, i_val, n - 1]" with int(n * 0.8) and
\* int(n * 0.9), as positions counted from 1
Boundaries(n) == <<1, (8 * n) \div 10 + 1, (9 * n) \div 10 + 1, n>>

\* compute_time_splits: (name, start_ts, end_ts) per split, or no split
\* for an empty series
ComputeTimeSplits(s) ==
    IF s = <<>> THEN <<>>
    ELSE LET b == Boundaries(Len(s))
         IN  [k \in 1..3 |-> [name |-> SplitNames[k], a |-> s[b[k]], b |-> s[b[k + 1]]]]

\* split_managed_csv: "df[(df[dcol] >= a) & (df[dcol] <= b)]"
PartOf(s, split) == {i \in DOMAIN s : s[i] >= split.a /\ s[i] <= split.b}

\* split_managed_csv on a managed CSV with datetime column s
SplitManagedCsv(s) ==
    /\ sp_series' = s
    /\ sp_splits' = ComputeTimeSplits(s)
    /\ sp_parts' = [k \in DOMAIN ComputeTimeSplits(s) |-> PartOf(s, ComputeTimeSplits(s)[k])]
    /\ UNCHANGED <<firstVars, spRest>>

InitSplits ==
    /\ sp_series = <<>>
    /\ sp_splits = <<>>
    /\ sp_parts = <<>>

NextSplits == \E s \in SortedSeries : SplitManagedCsv(s)

\* ------------------------------------------------------------------------
\* delta scanner (processors/delta_scanner.py): one PriceChange per tick
\* after the first, UP / DOWN / NEUTRAL; get_binary_sequence reads them.
\* ------------------------------------------------------------------------
MaxChanges == 4       \* ticks scanned after the first
MaxPrice == 3         \* prices 0..MaxPrice, in units of half of min_change
MinChange == 2        \* min_change in the same unit
NoPrice == -1         \* last_price is None
NoLimit == -1         \* max_length is None

TickPrices == 0..MaxPrice
MaxLengths == {NoLimit} \cup (0..3)
NoCall == [max_length |-> NoLimit, changes |-> <<>>, result |-> <<>>, made |-> FALSE]

\* scan_tick's direction of a move from old to new
Direction(old, new) ==
    IF Abs(new - old) < MinChange THEN "NEUTRAL"
    ELSE IF new - old > 0 THEN "UP" ELSE "DOWN"

\* PriceChange.to_binary
ToBinary(direction) ==
    CASE direction = "UP" -> <<"1">>
      [] direction = "DOWN" -> <<"0">>
      [] OTHER -> <<>>

\* the last m elements of s ("s[-m:]", m >= 1)
LastN(s, m) == IF m >= Len(s) THEN s ELSE SubSeq(s, Len(s) - m + 1, Len(s))

\* the symbols of a sequence of directions, neutral ones dropped
RECURSIVE Join(_)
Join(dirs) == IF dirs = <<>> THEN <<>> ELSE ToBinary(Head(dirs)) \o Join(Tail(dirs))

\* get_binary_sequence: "changes[-max_length:] if max_length else changes",
\* then the neutral changes are filtered out and the rest joined
BinarySequence(changes, max_length) ==
    Join(IF max_length = NoLimit \/ max_length = 0 THEN changes
         ELSE LastN(changes, max_length))

\* scan_tick(timestamp, symbol, price)
ScanTick(price) ==
    /\ Len(ds_changes) < MaxChanges
    /\ ds_last_price' = price
    /\ ds_changes' = IF ds_last_price = NoPrice THEN ds_changes
                     ELSE Append(ds_changes, Direction(ds_last_price, price))
    /\ UNCHANGED <<ds_call, firstVars, dsRest>>

\* get_binary_sequence(max_length)
GetBinarySequence(max_length) ==
    /\ ds_call' = [max_length |-> max_length,
                   changes |-> ds_changes,
                   result |-> BinarySequence(ds_changes, max_length),
                   made |-> TRUE]
    /\ UNCHANGED <<ds_last_price, ds_changes, firstVars, dsRest>>

InitScanner ==
    /\ ds_last_price = NoPrice
    /\ ds_changes = <<>>
    /\ ds_call = NoCall

NextScanner ==
    \/ \E price \in TickPrices : ScanTick(price)
    \/ \E m \in MaxLengths : GetBinarySequence(m)

\* ------------------------------------------------------------------------
\* quality collector (metrics/quality_collector.py): check_quality_batch
\* loops over the symbols, one check_quality call per symbol with data.
\* ------------------------------------------------------------------------
MaxSymbols == 3       \* symbols of one batch

QcSymbols == {"BTCUSDT", "ETHUSDT"}
SymbolLists == UNION {[1..n -> QcSymbols] : n \in 0..MaxSymbols}
\* where check_quality raises: nowhere, in quality_scorer.score, or in the
\* metric update after it
RaisePoints == {"none", "score", "metrics"}
NoResults == [s \in {} |-> "score"]

\* check_quality: the score, or the exception it logs and raises again
CheckQuality(symbol, raise_point) ==
    IF raise_point = "none" THEN "ok" ELSE "raised"

\* a result is stored for every symbol, failed checks included
StoreResultAlways(results, symbol, outcome) ==
    [s \in DOMAIN results \cup {symbol} |->
        IF s = symbol THEN "score" ELSE results[s]]

\* "results[symbol] = result" inside the try; the except clause continues
StoreResult(results, symbol, outcome) ==
    IF outcome = "ok"
    THEN [s \in DOMAIN results \cup {symbol} |->
            IF s = symbol THEN "score" ELSE results[s]]
    ELSE results

\* a call check_quality_batch(symbols, data_dict): "results = {}"
BatchStart(symbols, data) ==
    /\ qc_returned \/ qc_symbols = <<>>
    /\ qc_symbols' = symbols
    /\ qc_data' = data
    /\ qc_outcomes' = <<>>
    /\ qc_results' = NoResults
    /\ qc_returned' = FALSE
    /\ UNCHANGED <<firstVars, qcRest>>

\* one pass of "for symbol in symbols"
CheckSymbol(raise_point) ==
    /\ ~qc_returned
    /\ Len(qc_outcomes) < Len(qc_symbols)
    /\ LET symbol == qc_symbols[Len(qc_outcomes) + 1]
           outcome == IF symbol \notin qc_data THEN "missing"
                      ELSE CheckQuality(symbol, raise_point)
       IN  /\ qc_outcomes' = Append(qc_outcomes, outcome)
           /\ qc_results' = IF outcome = "missing" THEN qc_results
                            ELSE StoreResult(qc_results, symbol, outcome)
    /\ UNCHANGED <<qc_symbols, qc_data, qc_returned, firstVars, qcRest>>

\* "return results" after the loop
BatchReturn ==
    /\ ~qc_returned
    /\ Len(qc_outcomes) = Len(qc_symbols)
    /\ qc_symbols # <<>>
    /\ qc_returned' = TRUE
    /\ UNCHANGED <<qc_symbols, qc_data, qc_outcomes, qc_results, firstVars, qcRest>>

InitCollector ==
    /\ qc_symbols = <<>>
    /\ qc_data = {}
    /\ qc_outcomes = <<>>
    /\ qc_results = NoResults
    /\ qc_returned = FALSE

NextCollector ==
    \/ \E symbols \in SymbolLists \ {<<>>}, data \in SUBSET QcSymbols : BatchStart(symbols, data)
    \/ \E raise_point \in RaisePoints : CheckSymbol(raise_point)
    \/ BatchReturn

\* ------------------------------------------------------------------------
\* quality scorer (validators/quality_scorer.py): the constructor checks
\* the three weights with np.isclose.  Weights are in millionths.
\* ------------------------------------------------------------------------
MaxScorers == 2       \* scorers kept
One == 1000000        \* the weight 1.0
Tolerance == 10       \* np.isclose's atol + rtol * 1.0, rounded down to millionths

ScorerWeights == {300000, 300005, 400000, 500000}
NoScorerCall == [weights |-> <<0, 0, 0>>, raised |-> "none", made |-> FALSE]

\* always close
IsCloseAlways(a, b) == TRUE

\* np.isclose(a, b): abs(a - b) <= atol + rtol * abs(b) with atol 1e-8 and
\* rtol 1e-5: in millionths, abs(a - b) <= (0.01 + abs(b) / 100000), and the
\* left side is a whole number
IsClose(a, b) == Abs(a - b) <= (1000 + Abs(b)) \div 100000

\* QualityScorer(outlier_weight, freshness_weight, completeness_weight)
NewScorer(ow, fw, cw) ==
    /\ IF ~IsClose(ow + fw + cw, One)
       THEN /\ sc_call' = [weights |-> <<ow, fw, cw>>, raised |-> "ValueError", made |-> TRUE]
            /\ UNCHANGED sc_scorers
       ELSE /\ Cardinality(sc_scorers \cup {<<ow, fw, cw>>}) <= MaxScorers
            /\ sc_call' = [weights |-> <<ow, fw, cw>>, raised |-> "none", made |-> TRUE]
            /\ sc_scorers' = sc_scorers \cup {<<ow, fw, cw>>}
    /\ UNCHANGED <<firstVars, scRest>>

InitScorer ==
    /\ sc_scorers = {}
    /\ sc_call = NoScorerCall

NextScorer == \E ow, fw, cw \in ScorerWeights : NewScorer(ow, fw, cw)

\* ------------------------------------------------------------------------
\* upstream Binance client and its listen task (api/routes/websocket.py
\* start_binance_streaming, _binance_listen_loop, update_binance_subscriptions;
\* adapters/binance_ws.py connect, subscribe, disconnect, listen).  One
\* client connection sends subscribe messages; the handler and the listen
\* tasks are asyncio tasks, which run from one await of I/O to the next,
\* and a task made with create_task runs before any I/O awaited after its
\* creation completes.
\* ------------------------------------------------------------------------
MaxClientObjects == 2   \* BinanceWebSocketClient objects created
MaxSocks == 4           \* upstream sockets opened
MaxUpEvents == 2        \* upstream events
MaxSubMsgs == 3         \* subscribe messages
NoRef == 0              \* binance_ws is None
NoSock == 0             \* BinanceWebSocketClient.ws is None

ClientObjects == 1..MaxClientObjects
Socks == 1..MaxSocks
UpEventIds == 1..MaxUpEvents
SubscribeSymbols == { {"BTCUSDT"}, {"BTCUSDT", "ETHUSDT"} }

NoClientObject == [made |-> FALSE, connected |-> FALSE, ws |-> NoSock, subscriptions |-> {}]
NoListen == [st |-> "none", client |-> NoRef, sock |-> NoSock]
NoSocket == [open |-> FALSE, streams |-> {}, used |-> FALSE]
NoEvent == [st |-> "none", sock |-> NoSock, symbol |-> ""]

\* the socket not used so far with the lowest number
FreshSock == CHOOSE s \in Socks : ~up_socks[s].used /\ \A r \in Socks : r < s => up_socks[r].used
FreshClient == CHOOSE c \in ClientObjects :
                  ~up_clients[c].made /\ \A d \in ClientObjects : d < c => up_clients[d].made

\* no task made with create_task is still waiting for its first run
NoTaskReady == \A c \in ClientObjects : up_task[c].st # "created"

\* the handler receives a subscribe message, replaces the record and sends
\* the confirmation
ClientSubscribe(symbols) ==
    /\ up_pc = "idle"
    /\ up_msgs < MaxSubMsgs
    /\ up_msgs' = up_msgs + 1
    /\ up_subs' = symbols
    /\ up_pc' = "start"
    /\ UNCHANGED <<up_cur, up_ref, up_clients, up_task, up_socks, up_events>>
    /\ UNCHANGED <<firstVars, upRest>>

\* start_binance_streaming (ok: websockets.connect succeeds) followed by
\* update_binance_subscriptions up to subscribe()'s "await self.disconnect()"
StartStreaming(ok) ==
    /\ up_pc = "start"
    /\ NoTaskReady
    /\ LET running == up_ref # NoRef /\ up_clients[up_ref].connected
           canMake == \E c \in ClientObjects : ~up_clients[c].made
           canOpen == \E s \in Socks : ~up_socks[s].used
           ref == IF running THEN up_ref ELSE FreshClient
           sock == FreshSock
           clients == IF running THEN up_clients
                      ELSE [up_clients EXCEPT ![ref] =
                               [made |-> TRUE, connected |-> ok,
                                ws |-> IF ok THEN sock ELSE NoSock,
                                subscriptions |-> {}]]
           new_streams == up_subs \ clients[ref].subscriptions
       IN  /\ running \/ (canMake /\ canOpen)
           /\ up_ref' = ref
           /\ up_socks' = IF ~running /\ ok
                          THEN [up_socks EXCEPT ![sock] =
                                   [open |-> TRUE, streams |-> {}, used |-> TRUE]]
                          ELSE up_socks
           /\ up_task' = IF ~running /\ ok
                         THEN [up_task EXCEPT ![ref] = [NoListen EXCEPT !.st = "created"]]
                         ELSE up_task
           /\ IF ~clients[ref].connected \/ new_streams = {}
              THEN \* subscribe raises RuntimeError, or has nothing new
                   /\ up_clients' = clients
                   /\ up_pc' = "idle"
                   /\ UNCHANGED up_cur
              ELSE /\ up_clients' = [clients EXCEPT ![ref].subscriptions = @ \cup new_streams]
                   /\ up_cur' = ref
                   /\ up_pc' = "closing"
    /\ UNCHANGED <<up_subs, up_events, up_msgs>>
    /\ UNCHANGED <<firstVars, upRest>>

\* BinanceWebSocketClient.disconnect: "await self.ws.close()" completes,
\* ws = None, connected = False; subscribe goes on to websockets.connect
CloseDone ==
    /\ up_pc = "closing"
    /\ NoTaskReady
    /\ up_socks' = [up_socks EXCEPT ![up_clients[up_cur].ws].open = FALSE]
    /\ up_clients' = [up_clients EXCEPT ![up_cur].ws = NoSock, ![up_cur].connected = FALSE]
    /\ up_events' = [e \in UpEventIds |->
                        IF up_events[e].st = "pending" /\ up_events[e].sock = up_clients[up_cur].ws
                        THEN [up_events[e] EXCEPT !.st = "dropped"]
                        ELSE up_events[e]]
    /\ up_pc' = "reconnecting"
    /\ UNCHANGED <<up_cur, up_subs, up_ref, up_task, up_msgs>>
    /\ UNCHANGED <<firstVars, upRest>>

\* subscribe: "self.ws = await websockets.connect(combined_url)" returns or
\* raises
ReconnectDone(ok) ==
    /\ up_pc = "reconnecting"
    /\ NoTaskReady
    /\ \E s \in Socks : ~up_socks[s].used
    /\ IF ok
       THEN /\ up_socks' = [up_socks EXCEPT ![FreshSock] =
                               [open |-> TRUE, streams |-> up_clients[up_cur].subscriptions,
                                used |-> TRUE]]
            /\ up_clients' = [up_clients EXCEPT ![up_cur].ws = FreshSock,
                                                ![up_cur].connected = TRUE]
       ELSE UNCHANGED <<up_socks, up_clients>>
    /\ up_pc' = "idle"
    /\ UNCHANGED <<up_cur, up_subs, up_ref, up_task, up_events, up_msgs>>
    /\ UNCHANGED <<firstVars, upRest>>

\* _binance_listen_loop's first run: "self.binance_ws.listen()" on the
\* manager's client of that moment; listen raises RuntimeError when it is
\* not connected, and the loop's except clause clears binance_ws
ListenStart(c) ==
    /\ up_task[c].st = "created"
    /\ IF up_ref # NoRef /\ up_clients[up_ref].connected /\ up_clients[up_ref].ws # NoSock
       THEN /\ up_task' = [up_task EXCEPT ![c] = [st |-> "listening", client |-> up_ref,
                                                  sock |-> up_clients[up_ref].ws]]
            /\ UNCHANGED up_ref
       ELSE /\ up_task' = [up_task EXCEPT ![c] = [NoListen EXCEPT !.st = "done"]]
            /\ up_ref' = NoRef
    /\ UNCHANGED <<up_pc, up_cur, up_subs, up_clients, up_socks, up_events, up_msgs>>
    /\ UNCHANGED <<firstVars, upRest>>

\* listen: the socket it iterates has been closed; the iteration ends, or
\* raises ConnectionClosed and listen sets connected = False on its
\* client object; the loop task finishes
ListenClosed(c, raised) ==
    /\ up_task[c].st = "listening"
    /\ ~up_socks[up_task[c].sock].open
    /\ up_task' = [up_task EXCEPT ![c] = [NoListen EXCEPT !.st = "done"]]
    /\ up_clients' = IF raised
                     THEN [up_clients EXCEPT ![up_task[c].client].connected = FALSE]
                     ELSE up_clients
    /\ UNCHANGED <<up_pc, up_cur, up_subs, up_ref, up_socks, up_events, up_msgs>>
    /\ UNCHANGED <<firstVars, upRest>>

\* Binance sends a kline of a subscribed stream on the manager's current
\* connection; a listen task iterating that socket receives it and
\* on_message schedules its broadcast ("async for message in self.ws"),
\* otherwise it stays unread
UpstreamEvent(e, symbol) ==
    /\ up_events[e].st = "none"
    /\ \A f \in UpEventIds : f < e => up_events[f].st # "none"
    /\ up_ref # NoRef
    /\ up_clients[up_ref].connected
    /\ up_clients[up_ref].ws # NoSock
    /\ symbol \in up_socks[up_clients[up_ref].ws].streams
    /\ symbol \in up_subs
    /\ LET sock == up_clients[up_ref].ws
           heard == \E c \in ClientObjects :
                       up_task[c].st = "listening" /\ up_task[c].sock = sock
       IN  up_events' = [up_events EXCEPT ![e] =
                            [st |-> IF heard THEN "broadcast" ELSE "pending",
                             sock |-> sock, symbol |-> symbol]]
    /\ UNCHANGED <<up_pc, up_cur, up_subs, up_ref, up_clients, up_task, up_socks, up_msgs>>
    /\ UNCHANGED <<firstVars, upRest>>

InitUpstream ==
    /\ up_pc = "idle"
    /\ up_cur = NoRef
    /\ up_subs = {}
    /\ up_ref = NoRef
    /\ up_clients = [c \in ClientObjects |-> NoClientObject]
    /\ up_task = [c \in ClientObjects |-> NoListen]
    /\ up_socks = [s \in Socks |-> NoSocket]
    /\ up_events = [e \in UpEventIds |-> NoEvent]
    /\ up_msgs = 0

HandlerStep ==
    \/ \E ok \in BOOLEAN : StartStreaming(ok)
    \/ CloseDone
    \/ \E ok \in BOOLEAN : ReconnectDone(ok)

ListenStep ==
    \/ \E c \in ClientObjects : ListenStart(c)
    \/ \E c \in ClientObjects, raised \in BOOLEAN : ListenClosed(c, raised)

NextUpstream ==
    \/ \E symbols \in SubscribeSymbols : ClientSubscribe(symbols)
    \/ HandlerStep
    \/ ListenStep
    \/ \E e \in UpEventIds, symbol \in UNION SubscribeSymbols : UpstreamEvent(e, symbol)

\* ------------------------------------------------------------------------
\* REST requests and collection tasks (api/routes/data.py get_price,
\* tasks/collect_data.py collect_ohlcv_data): each caller constructs its
\* own MultiProviderManager and calls get_data once.  All callers arrive
\* within one cooldown period (the clock stands at 0).
\* ------------------------------------------------------------------------
MaxCallersInRow == 5    \* requests and tasks in one behaviour

CallerKinds == {"get_price", "collect_ohlcv_data"}
\* a provider's fetch for one caller: data that passes verification, a
\* raised error, or data that verification rejects
ProviderResults == {"ok", "error", "rejected"}

\* MultiProviderManager.__init__: "ProviderHealth(name) for name in self.providers"
FreshHealth == [p \in Providers |-> NewHealth]

\* get_data's for loop from provider i on, with health h and the providers
\* attempted so far; f gives each provider's result
RECURSIVE GetDataFrom(_, _, _, _)
GetDataFrom(i, h, attempted, f) ==
    IF i > Len(ProviderList) THEN [health |-> h, attempted |-> attempted, provider |-> "None"]
    ELSE LET p == ProviderList[i]
         IN  IF h[p].is_circuit_open /\ ~ShouldRetry(h[p], 0)
             THEN GetDataFrom(i + 1, h, attempted, f)
             ELSE IF f[p] = "ok"
             THEN [health |-> [h EXCEPT ![p] = RecordSuccess(@)],
                   attempted |-> attempted \cup {p}, provider |-> p]
             ELSE GetDataFrom(i + 1, [h EXCEPT ![p] = RecordFailure(@, 0)],
                              attempted \cup {p}, f)

\* get_price or collect_ohlcv_data: "manager = MultiProviderManager()",
\* then manager.get_data(...); the manager is dropped when the caller returns
HandleCaller(kind, f) ==
    /\ rq_count < MaxCallersInRow
    /\ rq_count' = rq_count + 1
    /\ LET r == GetDataFrom(1, FreshHealth, {}, f)
       IN  /\ rq_last' = [made |-> TRUE, kind |-> kind, attempted |-> r.attempted,
                          before |-> rq_failed, health |-> r.health]
           /\ rq_failed' = [p \in Providers |->
                               IF p \notin r.attempted THEN rq_failed[p]
                               ELSE IF f[p] = "ok" THEN 0
                               ELSE rq_failed[p] + 1]
    /\ UNCHANGED <<firstVars, rqRest>>

InitCallers ==
    /\ rq_count = 0
    /\ rq_failed = [p \in Providers |-> 0]
    /\ rq_last = [made |-> FALSE, kind |-> "none", attempted |-> {},
                  before |-> [p \in Providers |-> 0], health |-> FreshHealth]

NextCallers ==
    \E kind \in CallerKinds, f \in [Providers -> ProviderResults] : HandleCaller(kind, f)

\* ------------------------------------------------------------------------
\* fan-out by symbol and timeframe (api/routes/websocket.py): connected
\* clients send subscribe messages, and kline events of the streams
\* subscribed upstream are broadcast.  Every send succeeds here; failing
\* and suspended sends are the subject of the fan-out model above.
\* ------------------------------------------------------------------------
SubscribeRequests ==
    { [symbols |-> {"BTCUSDT"}, timeframes |-> {"1m"}],
      [symbols |-> {"BTCUSDT"}, timeframes |-> {"1h"}],
      [symbols |-> {"ETHUSDT"}, timeframes |-> {"1m"}] }

PairsOfRequest(in) == in.symbols \X in.timeframes

\* action "subscribe" of connection c: the record is assigned, then
\* start_binance_streaming and update_binance_subscriptions
SubscribeMessage(c, in) ==
    /\ fo_subs' = [fo_subs EXCEPT ![c] = SubsRecord(in.symbols, in.timeframes)]
    /\ fo_upstream' = UpdateBinanceSubscriptions(
                          StartBinanceStreaming(fo_upstream, TRUE),
                          [fo_subs EXCEPT ![c] = SubsRecord(in.symbols, in.timeframes)], TRUE)
    /\ fo_asked' = [fo_asked EXCEPT ![c] = @ \cup PairsOfRequest(in)]
    /\ UNCHANGED fo_recv
    /\ UNCHANGED <<firstVars, foRest>>

\* _handle_binance_message and the broadcast it schedules, for a kline of
\* an upstream stream: the message goes to every connection that passes
\* broadcast's filter
BroadcastEvent(symbol, timeframe) ==
    /\ <<symbol, timeframe>> \in fo_upstream.subscriptions
    /\ fo_recv' = [c \in Conns |->
                      IF Subscribed(fo_subs, c, symbol)
                      THEN fo_recv[c] \cup {<<symbol, timeframe>>}
                      ELSE fo_recv[c]]
    /\ UNCHANGED <<fo_subs, fo_upstream, fo_asked>>
    /\ UNCHANGED <<firstVars, foRest>>

InitFanout ==
    /\ fo_subs = [c \in Conns |-> SubsRecord({}, {})]
    /\ fo_upstream = NoClient
    /\ fo_asked = [c \in Conns |-> {}]
    /\ fo_recv = [c \in Conns |-> {}]

NextFanout ==
    \/ \E c \in Conns, in \in SubscribeRequests : SubscribeMessage(c, in)
    \/ \E symbol \in {"BTCUSDT", "ETHUSDT"}, timeframe \in {"1m", "1h"} :
          BroadcastEvent(symbol, timeframe)

Init == InitBackfill /\ InitManager /\ InitWs /\ InitAdapter /\ InitStore /\ InitMigrations /\ InitWebhooks /\ InitCelery /\ InitNormalize /\ InitSplits /\ InitScanner /\ InitCollector /\ InitScorer /\ InitUpstream /\ InitCallers /\ InitFanout

SpecBackfill == Init /\ [][NextBackfill]_vars
\* the loop thread keeps running: each of its steps is taken when it stays
\* possible
SpecBackfillOneFailing ==
    /\ Init /\ [][NextBackfillOneFailing]_vars
    /\ WF_vars(CycleStart) /\ WF_vars(ChunkStepOneFailing) /\ WF_vars(CycleEnd)
SpecManager == Init /\ [][NextManager]_vars
SpecFailover == Init /\ [][NextFailover]_vars
SpecWs == Init /\ [][NextWs]_vars
SpecAdapter == Init /\ [][NextAdapter]_vars
SpecStore == Init /\ [][NextStore]_vars
SpecFanout == Init /\ [][NextFanout]_vars
SpecCallers == Init /\ [][NextCallers]_vars
SpecUpstream == Init /\ [][NextUpstream]_vars
\* the event loop runs every task that is ready: the handler between its
\* awaits and the listen tasks; clients and Binance send when they like
SpecUpstreamLive == SpecUpstream /\ WF_vars(HandlerStep) /\ WF_vars(ListenStep)
SpecScorer == Init /\ [][NextScorer]_vars
SpecCollector == Init /\ [][NextCollector]_vars
SpecScanner == Init /\ [][NextScanner]_vars
SpecSplits == Init /\ [][NextSplits]_vars
SpecNormalize == Init /\ [][NextNormalize]_vars
SpecCelery == Init /\ [][NextCelery]_vars
SpecWebhooks == Init /\ [][NextWebhooks]_vars
SpecMigrations == Init /\ [][NextMigrations]_vars
\* a thread that can run does run: the retry loop is not starved
SpecAdapterLive ==
    SpecAdapter /\ \A c \in Threads : WF_vars(HttpAttempt(c))

\* ------------------------------------------------------------------------
\* Backfill properties
\* ------------------------------------------------------------------------
CeilDiv(a, b) == (a + b - 1) \div b

\* C1: for every (asset, interval) in the progress store, each last_cursor
\* value the loop writes is no smaller than the one it replaces and no larger
\* than that pair's target_end.
C1_CursorMonotoneBounded ==
    [][\A k \in Keys :
         (progress[k] # NoRow /\ progress'[k] # NoRow
            /\ progress'[k].last_cursor # progress[k].last_cursor)
         => /\ progress'[k].last_cursor >= progress[k].last_cursor
            /\ progress'[k].last_cursor <= progress'[k].target_end]_vars

\* C7: an asset added with years=1 and interval 1h, backfilled by clean
\* cycles only, has its cursor below target_end before ceil(365/7) = 53
\* cycles, and after the 53rd its cursor equals target_end and the
\* dataset_splits rows train, val and test exist.
C7_YearOfHourlyIn53Cycles ==
    \A k \in Keys :
        (/\ k[2] = "1h"
         /\ assets[k[1]] # NoRow
         /\ ~assets[k[1]].full_history
         /\ assets[k[1]].years = 1
         /\ progress[k] # NoRow
         /\ ~faults[k])
        => /\ steps[k] < CeilDiv(DaysPerYear, ChunkDays("1h"))
                => progress[k].last_cursor < progress[k].target_end
           /\ steps[k] = CeilDiv(DaysPerYear, ChunkDays("1h"))
                => /\ progress[k].last_cursor = progress[k].target_end
                   /\ splits[k] = {"train", "val", "test"}

\* ------------------------------------------------------------------------
\* Multi-provider manager properties
\* ------------------------------------------------------------------------
\* a fetch (of a primary or of a spot check) begins on p in this step
FetchBegins(c, p) == calls'[c].nfetch[p] > calls[c].nfetch[p]

\* get_data returns data in this step
Returns(c) == calls[c].pc # "done" /\ calls'[c].pc = "done" /\ calls'[c].result.kind = "data"

\* C2: a provider with three consecutive failures has its circuit open, and
\* while a circuit is open and cooldown_seconds have not passed since it
\* opened, no get_data call begins a fetch on that provider.
C2_OpenCircuitIsSkipped ==
    /\ [](\A p \in Providers : since[p] >= FailureThreshold => health[p].is_circuit_open)
    /\ [][\A c \in Callers, p \in Providers : FetchBegins(c, p) => ~Cooling(p)]_vars

\* C2 witness: a finished call skipped the cooling provider A, never fetched
\* from it, and returned another provider's data.
C2_Witness ==
    \E c \in Callers :
        /\ calls[c].pc = "done"
        /\ Cooling("A")
        /\ calls[c].fate["A"].kind = "skip"
        /\ calls[c].nfetch["A"] = 0
        /\ calls[c].result.provider = "B"

\* C3: on a half-open provider at most one fetch attempt is outstanding: no
\* second attempt begins before the first one's outcome is recorded.
C3_OneTrialWhenHalfOpen ==
    \A p \in Providers : Cardinality(trials[p]) <= 1

\* positions of the providers that failed in call c by raising or by
\* failing verification
FailedAt(c) ==
    {i \in 1..Len(ProviderList) : calls[c].fate[ProviderList[i]].kind \in {"err", "data"}}

SetMax(S) == CHOOSE x \in S : \A y \in S : y <= x

\* C5: when get_data ends with the aggregate error and some provider failed
\* in that call (raised or failed verification), the error carries the cause
\* of the last provider that failed.
C5_ErrorCarriesLastCause ==
    \A c \in Callers :
        (calls[c].pc = "done" /\ calls[c].result.kind = "error" /\ FailedAt(c) # {})
        => calls[c].result.cause = ProviderList[SetMax(FailedAt(c))]

\* C6: the failure count of a provider equals the number of its failed
\* attempts since its last success, an open circuit has at least three of
\* them, and a get_data call that returns a provider's data leaves that
\* provider with failure count zero and its circuit closed.
C6_SuccessResetsCount ==
    /\ [](\A p \in Providers :
            /\ health[p].failures = since[p]
            /\ health[p].is_circuit_open => since[p] >= FailureThreshold)
    /\ [][\A c \in Callers :
            Returns(c) =>
                LET p == calls'[c].result.provider IN
                health'[p].failures = 0 /\ ~health'[p].is_circuit_open]_vars

\* C6 witness: a call that began while A was half-open (three or more failures)
\* has returned A's data, and A's count is zero again with its circuit closed.
C6_Witness ==
    \E c \in Callers :
        /\ calls[c].pc = "done"
        /\ "A" \in calls[c].half0
        /\ calls[c].result.provider = "A"
        /\ health["A"].failures = 0
        /\ ~health["A"].is_circuit_open

\* ---- the failover scenario (SpecFailover): providers [A, B], one caller,
\* A raises during the first three requests, B returns valid data throughout
ReturnedFrom(p) == calls[1].result.kind = "data" /\ calls[1].result.provider = p

\* each of the first three requests returns B's data
FirstThreeGoToB ==
    (calls[1].pc = "done" /\ served <= FailureThreshold) => ReturnedFrom("B")

\* the fourth request, finished before the cooldown of the circuit opened by
\* the third failure has elapsed, returned B's data and never called A
FourthSkipsA ==
    (/\ calls[1].pc = "done"
     /\ served = FailureThreshold + 1
     /\ health["A"].failures = FailureThreshold
     /\ Cooling("A"))
    => ReturnedFrom("B") /\ calls[1].nfetch["A"] = 0

\* a later request that begins with A half-open
TrialRequestDone ==
    calls[1].pc = "done" /\ served > FailureThreshold /\ "A" \in calls[1].half0

\* A was reinstated by a single call to it
Reinstated ==
    /\ ReturnedFrom("A")
    /\ ~health["A"].is_circuit_open
    /\ health["A"].failures = 0
    /\ calls[1].nfetch["A"] = 1

\* A's fetch returned a payload with a price
AFetchSucceeded == calls[1].fate["A"].kind = "data" /\ calls[1].fate["A"].p > 0

\* no spot check contradicted A's price: verification is off, or the spot
\* check was not made, raised, had no price, or was within the tolerance
ANotContradicted ==
    LET f == calls[1].fate["A"] IN
    \/ ~verify_data
    \/ f.s \in {NoCheck, Err, 0}
    \/ 100 * Abs(f.p - f.s) <= ThresholdPct * f.p

C8_OnlySubscribersReceive ==
    [][\A c \in Conns :
          outq'[c] # outq[c] =>
             /\ Len(outq'[c]) = Len(outq[c]) + 1
             /\ SubSeq(outq'[c], 1, Len(outq[c])) = outq[c]
             /\ subscriptions[c].present
             /\ outq'[c][Len(outq'[c])].symbol \in subscriptions[c].symbols]_vars

\* C8 witness: a finished broadcast has delivered an event to a subscriber
\* of its symbol and nothing to another registered connection that is
\* subscribed to other symbols only.
C8_Witness ==
    \E c, d \in Conns :
        /\ Len(outq[c]) = 1
        /\ tasks[outq[c][1].id] = DoneTask
        /\ outq[c][1].symbol \in subscriptions[c].symbols
        /\ d \in active_connections
        /\ subscriptions[d].symbols # {}
        /\ outq[c][1].symbol \notin subscriptions[d].symbols
        /\ outq[d] = <<>>
        /\ nextEv = 2

\* the (symbol, timeframe) pairs the registered clients are subscribed to,
\* symbols in the upstream's spelling
ClientPairs ==
    UNION { {<<Upper(x[1]), x[2]>> : x \in subscriptions[c].symbols \X subscriptions[c].timeframes}
            : c \in active_connections }

\* a step that is a handled subscribe, unsubscribe or disconnect
ClientChange ==
    \/ \E c \in Conns : handler[c] = "open" /\ handler'[c] = "gone"
    \/ /\ handler' = handler /\ tasks' = tasks /\ nextEv' = nextEv
       /\ subscriptions' # subscriptions

\* C9: after each handled subscribe, unsubscribe or disconnect the streams
\* of the connected upstream client are exactly the pairs the registered
\* clients are subscribed to.
C9_UpstreamEqualsUnion ==
    [][ClientChange /\ binance_ws'.connected
          => binance_ws'.subscriptions = ClientPairs']_vars

\* C10: every connection receives its events in the order in which
\* _handle_binance_message produced them.
C10_DeliveredInProductionOrder ==
    \A c \in Conns : \A i, j \in 1..Len(outq[c]) :
        i < j => outq[c][i].id < outq[c][j].id

\* a step of a broadcast task, the work spawned from the upstream callback
BroadcastStep == tasks' # tasks /\ nextEv' = nextEv

\* a step of the upstream callback itself
CallbackStep == nextEv' # nextEv

RegistryUnchanged ==
    active_connections' = active_connections /\ subscriptions' = subscriptions

\* C11 as stated: neither the upstream callback nor the broadcast tasks it
\* spawns change active_connections or subscriptions.
C11_UpstreamNeverMutatesRegistry ==
    [][CallbackStep \/ BroadcastStep => RegistryUnchanged]_vars

\* C11 amended: the upstream callback never changes the registry, and a
\* broadcast task changes it only by removing connections to which it tried
\* to send and wrote nothing in that step (the send failed); every other
\* connection keeps its membership and its record.
C11_OnlyDeadPeerRemoval ==
    [][/\ CallbackStep => RegistryUnchanged
       /\ BroadcastStep =>
             /\ active_connections' \subseteq active_connections
             /\ \A c \in Conns :
                   \/ /\ subscriptions'[c] = subscriptions[c]
                      /\ (c \in active_connections') = (c \in active_connections)
                   \/ /\ subscriptions'[c] = NoSubs
                      /\ c \notin active_connections'
                      /\ outq'[c] = outq[c]
                      /\ \E t \in EventIds :
                            /\ tasks'[t] # tasks[t]
                            /\ tasks[t].symbol \in subscriptions[c].symbols]_vars

\* C11 witness: a broadcast has removed a connection whose handler is still
\* running, and delivered its event to another connection.
C11_Witness ==
    \E c, d \in Conns :
        /\ handler[c] = "open"
        /\ c \notin active_connections
        /\ ~subscriptions[c].present
        /\ d \in active_connections
        /\ Len(outq[d]) > 0

\* a step in which connection c handles an unsubscribe
UnsubscribeStep(c) == muted'[c] # muted[c] /\ muted'[c] # {}

\* C12: a connection is sent no event of a symbol it has unsubscribed from
\* (until it subscribes again), and the unsubscribe of one connection leaves
\* every other connection's record, the set of registered connections, the
\* broadcasts in flight and the upstream streams as they were.
C12_UnsubscribeMutesOnlyThatClient ==
    [][/\ \A c \in Conns :
             outq'[c] # outq[c] => outq'[c][Len(outq'[c])].symbol \notin muted[c]
       /\ \A c \in Conns :
             UnsubscribeStep(c) =>
                /\ \A d \in Conns \ {c} : subscriptions'[d] = subscriptions[d]
                /\ active_connections' = active_connections
                /\ tasks' = tasks /\ outq' = outq /\ waiters' = waiters
                /\ binance_ws' = binance_ws]_vars

\* C12 witness: both connections received event 1 of BTCUSDT; one of them
\* then unsubscribed from BTCUSDT and stayed registered, and the finished
\* broadcast of event 2 of BTCUSDT reached the other one only.
C12_Witness ==
    \E c, d \in Conns :
        /\ c # d
        /\ "BTCUSDT" \in muted[c]
        /\ c \in active_connections /\ subscriptions[c].present
        /\ outq[c] = <<[id |-> 1, symbol |-> "BTCUSDT"]>>
        /\ outq[d] = <<[id |-> 1, symbol |-> "BTCUSDT"], [id |-> 2, symbol |-> "BTCUSDT"]>>
        /\ tasks[2] = DoneTask
        /\ "BTCUSDT" \in subscriptions[d].symbols

\* C13: once a connection's handler has seen the close and returned, the
\* connection is in neither active_connections nor subscriptions, and it
\* never comes back: the handler stays finished and no later step of any
\* task registers the connection again.
C13_ClosedConnectionStaysRemoved ==
    /\ [](\A c \in Conns :
             handler[c] = "gone" => c \notin active_connections /\ subscriptions[c] = NoSubs)
    /\ [][\A c \in Conns :
             handler[c] = "gone" =>
                /\ handler'[c] = "gone"
                /\ c \notin active_connections' /\ subscriptions'[c] = NoSubs]_vars

\* C13 witness: a connection that had received event 1 has closed, and the
\* broadcast of event 2 has since finished and reached the other connection.
C13_Witness ==
    \E c, d \in Conns :
        /\ handler[c] = "gone"
        /\ Len(outq[c]) = 1 /\ outq[c][1].id = 1
        /\ c \notin active_connections /\ ~subscriptions[c].present
        /\ d \in active_connections
        /\ Len(outq[d]) = 2 /\ outq[d][2].id = 2
        /\ tasks[2] = DoneTask

\* the step is a run of broadcast task t
RunOf(t) == tasks'[t] # tasks[t] /\ nextEv' = nextEv

\* the snapshot the run works on, and the positions it covers in this step
SnapOf(t) == IF tasks[t].st = "new" THEN ListOf(active_connections) ELSE tasks[t].snap
FirstOf(t) == IF tasks[t].st = "new" THEN 1 ELSE tasks[t].idx + 1
LastOf(t) == IF tasks'[t].st = "wait" THEN tasks'[t].idx ELSE Len(SnapOf(t))

\* C14: in every run of a broadcast, each connection of the snapshot the run
\* reaches whose record lists the event's symbol either has the event
\* written to it, or (its send failed) has nothing written and is removed
\* from active_connections and subscriptions; a failure on one connection
\* does not keep the event from the connections after it.
C14_SendFailureDropsOnlyThatClient ==
    [][\A t \in EventIds :
          RunOf(t) =>
             \A i \in FirstOf(t)..LastOf(t) :
                LET d == SnapOf(t)[i]
                IN  tasks[t].symbol \in subscriptions[d].symbols =>
                       \/ outq'[d] = Append(outq[d], [id |-> t, symbol |-> tasks[t].symbol])
                       \/ /\ outq'[d] = outq[d]
                          /\ d \notin active_connections'
                          /\ subscriptions'[d] = NoSubs]_vars

\* C14 witness: the only event so far failed on connection 1, which was
\* removed while its handler is still running, and was delivered to
\* connection 2, which comes after it in the snapshot.
C14_Witness ==
    /\ nextEv = 2 /\ tasks[1] = DoneTask
    /\ handler[1] = "open" /\ 1 \notin active_connections /\ subscriptions[1] = NoSubs
    /\ outq[1] = <<>>
    /\ 2 \in active_connections
    /\ Len(outq[2]) = 1 /\ outq[2][1].id = 1

\* ------------------------------------------------------------------------
\* Properties of the adapter contract
\* ------------------------------------------------------------------------

\* C15: any two calls that came out of the rate-limit gate of the one
\* adapter instance did so at least 1/rps apart.
C15_GatePassesSpaced ==
    \A i, j \in 1..Len(gate_passes) :
        i < j => gate_passes[j] - gate_passes[i] >= MinInterval

\* a thread is inside an HTTP retry loop
InRetryLoop(c) == thr[c].pc = "http"

\* C16: a fetch makes at most max_retries+1 HTTP attempts; when the attempt
\* numbered max_retries fails the fetch ends with DataFetchError; and a
\* thread in the retry loop always leaves it.
C16_RetryLoopBounded ==
    /\ [](\A c \in Threads : thr[c].nhttp <= MaxRetries + 1)
    /\ [][\A c \in Threads :
             (InRetryLoop(c) /\ thr[c].attempt = MaxRetries /\ thr'[c] # thr[c]) =>
                /\ thr'[c].pc \in {"normalize", "done"}
                /\ thr'[c].pc = "done" => thr'[c].result = "DataFetchError"]_vars
    /\ \A c \in Threads : InRetryLoop(c) ~> ~InRetryLoop(c)

\* C16 witness: a fetch has ended with DataFetchError after exactly
\* max_retries+1 HTTP attempts.
C16_Witness ==
    \E c \in Threads :
        /\ thr[c].pc = "done" /\ thr[c].result = "DataFetchError"
        /\ thr[c].nhttp = MaxRetries + 1 /\ thr[c].attempt = MaxRetries

\* C17: a finished fetch has returned a payload or raised DataFetchError,
\* whatever a stage raised.
C17_OnlyDataFetchError ==
    \A c \in Threads : thr[c].pc = "done" => thr[c].result \in {"ok", "DataFetchError"}

\* a transaction of writer w commits in this step
CommitStep(w) == tx[w].pc = "run" /\ tx'[w].pc = "done" /\ tx'[w].ret > 0

\* C18: persisting again the bars that were persisted last, through the
\* same function and for the same symbol, leaves table ohlcv with the same
\* rows and the same field values.
C18_UpsertIdempotent ==
    [][\A w \in Writers :
          ( /\ CommitStep(w)
            /\ last_write.n >= 1
            /\ last_write.path = tx[w].path
            /\ last_write.symbol = tx[w].symbol
            /\ last_write.batch = tx[w].batch ) => ohlcv' = ohlcv]_vars

\* C18 witness: the same two-bar batch has been committed twice in a row.
C18_Witness ==
    /\ last_write.n >= 2
    /\ Len(last_write.batch) = 2
    /\ ohlcv # {}

\* C19: the table never holds two rows with one key, and a commit leaves,
\* for every key of its batch, the row of the key's last occurrence in
\* the batch, and every other row as it was.
C19_OneRowLastWriteWins ==
    /\ [](\A r, s \in ohlcv : (r.symbol = s.symbol /\ r.ts = s.ts) => r = s)
    /\ [][\A w \in Writers :
            CommitStep(w) =>
              LET rows == Rows(w)
                  last(j) == \A l \in DOMAIN rows : l > j => rows[l].ts # rows[j].ts
                  inBatch(r) == \E j \in DOMAIN rows :
                                   rows[j].symbol = r.symbol /\ rows[j].ts = r.ts
              IN  /\ \A j \in DOMAIN rows : last(j) => rows[j] \in ohlcv'
                  /\ \A r \in ohlcv : ~inBatch(r) => r \in ohlcv'
                  /\ \A r \in ohlcv' : r \in ohlcv \/ \E j \in DOMAIN rows : rows[j] = r]_vars

\* C19 witness: one writer has committed a batch with the same ts twice
\* under different values, and the other writer has committed, after it,
\* another value for that key.
C19_Witness ==
    \E w, v \in Writers :
        /\ w # v
        /\ tx[w].pc = "done" /\ tx[w].ret = 2
        /\ tx[v].pc = "done" /\ tx[v].ret > 0
        /\ tx[w].symbol = tx[v].symbol
        /\ Rows(w)[1].ts = Rows(w)[2].ts
        /\ Rows(w)[1].close # Rows(w)[2].close
        /\ \E j \in DOMAIN Rows(v) :
              /\ Rows(v)[j].ts = Rows(w)[2].ts
              /\ Rows(v)[j].close # Rows(w)[2].close
              /\ Rows(v)[j] \in ohlcv
        /\ last_write.batch = tx[v].batch
        /\ last_write.batch # tx[w].batch

\* the loop body ran to its end for pair k in this step and kept no rows
\* (the fetch was empty, or validation rejected the chunk)
EmptyChunkStep(k) ==
    /\ progress[k] # NoRow /\ progress'[k] # NoRow
    /\ steps'[k] = steps[k] + 1
    /\ progress'[k].last_rows = 0

\* C20: a step for a pair whose cursor is before target_end either ends
\* with the fetch's exception or runs to its end, and a step that keeps no
\* rows moves the cursor forward by the interval's chunk.
C20_EmptyChunkAdvancesCursor ==
    [][\A k \in Keys :
          /\ EmptyChunkStep(k) =>
                /\ progress[k].last_cursor < progress[k].target_end
                /\ progress'[k].last_cursor = progress[k].last_cursor + ChunkDays(k[2])
                /\ progress'[k].last_cursor > progress[k].last_cursor
          /\ ( /\ bfPc = "cycle" /\ bfQueue # <<>> /\ bfQueue' # bfQueue
               /\ k = <<Head(bfQueue).id, Head(bfQueue).itv>>
               /\ progress[k] # NoRow
               /\ progress[k].last_cursor < progress[k].target_end )
             => \/ steps'[k] = steps[k] + 1
                \/ bfQueue' = <<>> /\ progress' = progress]_vars

\* C20 witness: the first step of a pair kept no rows and the cursor
\* stands one chunk after the start of the window.
C20_Witness ==
    \E k \in Keys :
        /\ progress[k] # NoRow
        /\ steps[k] = 1
        /\ ~hasCsv[k]
        /\ progress[k].last_rows = 0
        /\ progress[k].last_cursor = progress[k].target_start + ChunkDays(k[2])
        /\ progress[k].last_cursor < progress[k].target_end

\* C21: once stop() has set the flag, the loop begins no chunk fetch
\* beyond the one that stop() found in progress.
C21_NoFetchAfterStop == fetches_after_stop <= 1

\* C22: a run that finds a recorded migration whose file bytes do not hash
\* to the recorded checksum ends with the checksum-mismatch error and
\* leaves the migrations table and the schema as they were.
C22_MismatchAbortsBeforeApply ==
    [][(mig_result' # mig_result \/ mig_table' # mig_table \/ mig_schema' # mig_schema)
         => ((\E f \in DOMAIN mig_table :
                 /\ mig_table[f] # NoSum
                 /\ mig_files[f] # NoFile
                 /\ mig_files[f] # mig_table[f])
             => /\ mig_result' = "checksum_mismatch"
                /\ mig_table' = mig_table
                /\ mig_schema' = mig_schema)]_vars

\* C22 witness: a run has ended with the checksum error while a new
\* migration file was waiting to be applied.
C22_Witness ==
    /\ mig_result = "checksum_mismatch"
    /\ mig_table["001.sql"] = "A" /\ mig_files["001.sql"] = "B"
    /\ mig_table["002.sql"] = NoSum /\ mig_files["002.sql"] = "B"
    /\ mig_schema = {"001.sql"}

C24_AtMostThreeExecutions ==
    \A sym \in TaskSymbols : ce_task[sym].runs <= 3

\* the spot check of call c comes back in this step with a price whose
\* variance from the primary's price is above the tolerance
VarianceFound(c) ==
    /\ calls[c].pc = "verify"
    /\ calls'[c].pc # "verify"
    /\ LET f == calls'[c].fate[ProviderList[calls[c].idx]]
       IN  /\ f.kind = "data"
           /\ f.s \notin {Err, 0, NoCheck}
           /\ 100 * Abs(f.p - f.s) > ThresholdPct * f.p

\* C25: a variance above the tolerance adds a failure to the primary's
\* health and moves the call on to the next provider without ending it;
\* a call ends with the aggregate error only when no provider was left
\* untried and none returned data.
C25_VarianceFailsPrimaryOnly ==
    /\ [][\A c \in Callers :
            VarianceFound(c) =>
              LET p == ProviderList[calls[c].idx]
              IN  /\ health'[p].failures = health[p].failures + 1
                  /\ calls'[c].pc = "loop"
                  /\ calls'[c].idx = calls[c].idx + 1
                  /\ calls'[c].result = NoResult]_vars
    /\ [](\A c \in Callers :
            (calls[c].pc = "done" /\ calls[c].result.kind = "error")
            => \A p \in Providers : calls[c].fate[p].kind # "none")

\* C25 witness: a call found A's price too far from B's spot price, went
\* on to B and returned B's data.
C25_Witness ==
    \E c \in Callers :
        /\ calls[c].pc = "done"
        /\ calls[c].result.kind = "data"
        /\ calls[c].result.provider = "B"
        /\ calls[c].fate["A"] = Fate("data", 100, 102)
        /\ health["A"].failures >= 1

\* C26: a get_data call in which a provider's fetch returned a payload
\* without data ends by returning that payload, not with an error and not
\* with another provider's data.
C26_EmptyPayloadReturned ==
    \A c \in Callers, p \in Providers :
        (calls[c].pc = "done" /\ calls[c].fate[p].kind = "data" /\ calls[c].fate[p].p = 0)
        => (calls[c].result.kind = "data" /\ calls[c].result.provider = p)

\* C27: every stored bar has low <= min(open, close), high >= max(open,
\* close) and volume >= 0.
C27_StoredBarsValid ==
    \A r \in nz_stored :
        /\ r.low <= r.open /\ r.low <= r.close
        /\ r.high >= r.open /\ r.high >= r.close
        /\ r.volume >= 0

\* C28: for a series of n >= 1 rows there are three ranges, every row is
\* in exactly one of them, and their row counts add up to n.
C28_SplitsPartitionRows ==
    sp_series # <<>> =>
        /\ Len(sp_splits) = 3
        /\ \A i \in DOMAIN sp_series :
              Cardinality({k \in DOMAIN sp_parts : i \in sp_parts[k]}) = 1
        /\ Cardinality(sp_parts[1]) + Cardinality(sp_parts[2]) + Cardinality(sp_parts[3])
             = Len(sp_series)

\* C29: a call get_binary_sequence(max_length) with max_length >= 1
\* returns the most recent max_length symbols of the scanner, one symbol
\* per non-neutral change: min(max_length, non-neutral changes) of them.
C29_MostRecentSymbols ==
    (ds_call.made /\ ds_call.max_length >= 1) =>
        ds_call.result = LastN(Join(ds_call.changes), ds_call.max_length)

\* C30: a returned check_quality_batch call has handled every symbol of
\* its list in order, those after a missing or a failed one included, and
\* its results hold exactly the symbols whose check succeeded.
C30_BatchContinuesPastFailures ==
    qc_returned =>
        /\ Len(qc_outcomes) = Len(qc_symbols)
        /\ \A i \in DOMAIN qc_symbols :
              (qc_symbols[i] \notin qc_data) <=> (qc_outcomes[i] = "missing")
        /\ DOMAIN qc_results =
              {qc_symbols[i] : i \in {j \in DOMAIN qc_symbols : qc_outcomes[j] = "ok"}}

\* a returned call whose first symbol had no data, whose second check
\* raised and whose third succeeded
C30_Witness ==
    /\ qc_returned
    /\ Len(qc_outcomes) = 3
    /\ qc_outcomes[1] = "missing"
    /\ qc_outcomes[2] = "raised"
    /\ qc_outcomes[3] = "ok"
    /\ DOMAIN qc_results = {qc_symbols[3]}
    /\ qc_symbols[2] # qc_symbols[3] => qc_symbols[2] \notin DOMAIN qc_results

\* C31 as stated: a constructor call whose weights do not sum to exactly
\* 1.0 raised, and every scorer that exists has weights summing to 1.0.
C31_WeightsSumToOne ==
    /\ \A w \in sc_scorers : w[1] + w[2] + w[3] = One
    /\ (sc_call.made /\ sc_call.weights[1] + sc_call.weights[2] + sc_call.weights[3] # One)
           => sc_call.raised = "ValueError"

\* C31 amended: a constructor call whose weights are further than
\* np.isclose's tolerance (about 1e-5) from 1.0 raised ValueError and made
\* no scorer; every scorer that exists has weights within it.
C31_WeightsCloseToOne ==
    /\ \A w \in sc_scorers : Abs(w[1] + w[2] + w[3] - One) <= Tolerance
    /\ (sc_call.made /\ Abs(sc_call.weights[1] + sc_call.weights[2] + sc_call.weights[3] - One) > Tolerance)
           => (sc_call.raised = "ValueError" /\ sc_call.weights \notin sc_scorers)

\* the constructor has refused weights 0.5, 0.5, 0.5 while a scorer exists
C31_Witness ==
    /\ sc_call.made
    /\ sc_call.weights = <<500000, 500000, 500000>>
    /\ sc_call.raised = "ValueError"
    /\ sc_scorers = {<<300000, 300000, 400000>>}

\* C32: a chunk processed for an (asset, interval) moves its cursor by
\* 1 day for a sub-hourly interval, 7 days for 1h and 4h, 30 days for 1d
\* and larger.
C32_ChunkLengthByInterval ==
    [][\A k \in Keys :
          (progress[k] # NoRow /\ steps'[k] = steps[k] + 1)
              => progress'[k].last_cursor = progress[k].last_cursor +
                     (IF k[2] \in {"1d", "1w", "1M"} THEN 30
                      ELSE IF k[2] \in {"1h", "4h"} THEN 7
                      ELSE 1)]_vars

\* C33: an upstream event that arrives for a subscribed symbol on the
\* connection of a connected upstream client is eventually broadcast (or
\* lost with its connection when a later subscription change replaces it):
\* a listen task is consuming the current connection.
C33_UpstreamEventBroadcast ==
    \A e \in UpEventIds :
        (up_events[e].st = "pending") ~> (up_events[e].st \in {"broadcast", "dropped"})

\* C34: while the fetch of one pair keeps raising, every other pair of an
\* enabled asset still gets its cursor to target_end (unless its asset is
\* removed or disabled first).
C34_OtherPairsStillFinish ==
    \A k \in Keys \ {FailingKey} :
        (progress[k] # NoRow)
            ~> (\/ progress[k] = NoRow
                \/ ~assets[k[1]].enabled
                \/ progress[k].last_cursor >= progress[k].target_end)

\* C35: a chunk whose fetch returned valid rows moves the cursor only as a
\* clean success, its rows written to the database: such a step never
\* marks the pair as faulty.
C35_CursorNeverPassesUnstoredRows ==
    [][\A k \in Keys :
          (/\ progress[k] # NoRow
           /\ steps'[k] = steps[k] + 1
           /\ progress'[k].last_cursor > progress[k].last_cursor
           /\ progress'[k].last_rows > 0
           /\ ~faults[k])
              => ~faults'[k]]_vars

\* C36: a request or task that arrives within the cooldown after a
\* provider failed in three successive earlier requests or tasks finds
\* that provider's circuit open and does not attempt it.
C36_CircuitPersistsAcrossCallers ==
    \A p \in Providers :
        (rq_last.made /\ rq_last.before[p] >= FailureThreshold)
            => p \notin rq_last.attempted

\* C37: between the steps of the handlers and the broadcast tasks, the
\* connections that have a subscription record are exactly the members of
\* active_connections.
C37_RecordsMatchActiveConnections ==
    {c \in Conns : subscriptions[c].present} = active_connections

\* C38: a kline event is sent to a connection only if the connection's
\* record lists the event's symbol and the event's timeframe.
C38_EventMatchesSymbolAndTimeframe ==
    [][\A c \in Conns :
          \A ev \in fo_recv'[c] \ fo_recv[c] :
              /\ ev[1] \in fo_subs[c].symbols
              /\ ev[2] \in fo_subs[c].timeframes]_vars

\* C39: the record of a connection covers every symbol its subscribe
\* messages have named so far.
C39_SubscribesAccumulate ==
    \A c \in Conns : {p[1] : p \in fo_asked[c]} \subseteq fo_subs[c].symbols

\* C40: the checksum a run records for a file it applies is the checksum
\* the next start computes for the same, unchanged file, so running again
\* with unchanged files finds no mismatch.
C40_RecordedChecksumIsRecomputed ==
    [][\A f \in DOMAIN mig_table :
          (mig_table[f] = NoSum /\ mig_table'[f] # NoSum /\ mig_files' = mig_files)
              => mig_table'[f] = Sha256OfBytes(mig_files'[f])]_vars

\* C40: a start that finds every file on disk recorded with the checksum
\* a run records for its present content does not end with the
\* checksum-mismatch error.
C40_RerunDoesNotAbort ==
    [][(/\ mig_result' # mig_result
        /\ \A f \in DOMAIN mig_table :
              mig_files[f] # NoFile => mig_table[f] = Sha256OfText(mig_files[f]))
         => mig_result' # "checksum_mismatch"]_vars

====
